---------------------------- MODULE Spec2Model ----------------------------
(***************************************************************************)
(* Model of src/src/setup/index.ts: the site configuration loader          *)
(* (loadConfig and the module-level siteConfig singleton) and the          *)
(* functions exported beside it (getReviewsForPage with loadReviews,       *)
(* getFullAddress, getYearsInBusinessText).                                *)
(* The file also holds the setup wizard (class SetupWizard): its prompts,   *)
(* the crawl of an existing site, the six collection steps and the          *)
(* generation of the project's files are modelled as a process of its own.  *)
(*                                                                         *)
(* The raw document is the untyped tree YAML.parse returns, so the model    *)
(* carries JavaScript values with their kinds: the loader's `||`, `??`,    *)
(* `?.`, template literals, `.map`, `.filter` and `.replace` behave        *)
(* differently on undefined, null, booleans, numbers, strings, arrays and  *)
(* objects, and the loader's exceptions come from exactly those            *)
(* differences.                                                            *)
(***************************************************************************)
EXTENDS Integers, Sequences, FiniteSets, TLC

(***************************************************************************)
(* JavaScript values.  A value is a record whose field k names its kind;   *)
(* a string is a sequence of one-character strings, an array a sequence of *)
(* values, an object a function from its own keys to values.               *)
(***************************************************************************)
Undefined == [k |-> "undefined"]

Null == [k |-> "null"]

NaN == [k |-> "NaN"]

Bool(b) == [k |-> "bool", v |-> b]

Num(n) == [k |-> "num", v |-> n]

Str(s) == [k |-> "str", v |-> s]

Arr(a) == [k |-> "arr", v |-> a]

Obj(f) == [k |-> "obj", v |-> f]

EmptyStr == Str(<< >>)

EmptyArr == Arr(<< >>)

EmptyObj == Obj(<< >>)

\* An object literal built from a function: a key whose value is undefined is
\* a key the document does not have.
MkObj(f) == Obj([key \in {x \in DOMAIN f : f[x] # Undefined} |-> f[key]])

Nullish(x) == x.k \in {"undefined", "null"}

\* ToBoolean: the falsy values are undefined, null, false, 0, NaN and "".
Truthy(x) ==
  CASE x.k \in {"undefined", "null", "NaN"} -> FALSE
    [] x.k = "bool" -> x.v
    [] x.k = "num" -> x.v # 0
    [] x.k = "str" -> x.v # << >>
    [] OTHER -> TRUE

\* a || b
Or(a, b) == IF Truthy(a) THEN a ELSE b

\* a ?? b
Coalesce(a, b) == IF Nullish(a) THEN b ELSE a

\* o.key on a value that is neither null nor undefined: an own key of an
\* object, undefined for a key it lacks and for every key of a primitive or
\* an array (the loader reads no built-in property through this path).
Prop(o, key) ==
  IF o.k = "obj" /\ key \in DOMAIN o.v THEN o.v[key] ELSE Undefined

\* o?.key
Opt(o, key) == IF Nullish(o) THEN Undefined ELSE Prop(o, key)

\* config.a?.b and config.a?.b?.c
Opt2(config, a, b) == Opt(Prop(config, a), b)

Opt3(config, a, b, c) == Opt(Opt2(config, a, b), c)

IsArray(x) == x.k = "arr"

Digits == <<"0", "1", "2", "3", "4", "5", "6", "7", "8", "9">>

IsDigit(c) == \E i \in 1..10 : Digits[i] = c

DigitValue(c) == (CHOOSE i \in 1..10 : Digits[i] = c) - 1

\* Number.prototype.toString for an integer.
RECURSIVE NatToStr(_)
NatToStr(n) ==
  IF n < 10 THEN <<Digits[n + 1]>>
  ELSE NatToStr(n \div 10) \o <<Digits[(n % 10) + 1]>>

IntToStr(n) == IF n < 0 THEN <<"-">> \o NatToStr(-n) ELSE NatToStr(n)

\* The decimal value of a string of digits.
RECURSIVE DecimalValue(_)
DecimalValue(s) ==
  IF s = << >> THEN 0
  ELSE 10 * DecimalValue(SubSeq(s, 1, Len(s) - 1)) + DigitValue(s[Len(s)])

AllDigits(s) == \A i \in 1..Len(s) : IsDigit(s[i])

\* ToNumber, for the values the loader subtracts: a string of digits is its
\* decimal value, any other non-empty string is NaN.
ToNumber(x) ==
  CASE x.k = "num" -> x
    [] x.k = "bool" -> Num(IF x.v THEN 1 ELSE 0)
    [] x.k = "null" -> Num(0)
    [] x.k = "str" /\ AllDigits(x.v) -> Num(DecimalValue(x.v))
    [] x.k = "arr" /\ x.v = << >> -> Num(0)
    [] OTHER -> NaN

\* a - b
Minus(a, b) ==
  LET x == ToNumber(a)
      y == ToNumber(b)
  IN IF x = NaN \/ y = NaN THEN NaN ELSE Num(x.v - y.v)

\* ToString, as a template literal applies it.
RECURSIVE ToStr(_)
RECURSIVE JoinComma(_)
ToStr(x) ==
  CASE x.k = "str" -> x.v
    [] x.k = "num" -> IntToStr(x.v)
    [] x.k = "bool" -> IF x.v THEN <<"t", "r", "u", "e">>
                       ELSE <<"f", "a", "l", "s", "e">>
    [] x.k = "null" -> <<"n", "u", "l", "l">>
    [] x.k = "undefined" -> <<"u", "n", "d", "e", "f", "i", "n", "e", "d">>
    [] x.k = "NaN" -> <<"N", "a", "N">>
    [] x.k = "arr" -> JoinComma(x.v)
    [] OTHER -> <<"[", "o", "b", "j", "e", "c", "t", " ",
                  "O", "b", "j", "e", "c", "t", "]">>

JoinComma(a) ==
  IF a = << >> THEN << >>
  ELSE LET h == IF Nullish(Head(a)) THEN << >> ELSE ToStr(Head(a))
       IN IF Len(a) = 1 THEN h ELSE h \o <<",">> \o JoinComma(Tail(a))

\* s.replace(/\D/g, '')
StripNonDigits(s) == SelectSeq(s, IsDigit)

\* White space, as String.prototype.trim and parseInt skip it.
IsSpace(c) == c \in {" ", "\t"}

\* s.trim()
RECURSIVE TrimStart(_)
TrimStart(s) ==
  IF s # << >> /\ IsSpace(Head(s)) THEN TrimStart(Tail(s)) ELSE s

RECURSIVE TrimEnd(_)
TrimEnd(s) ==
  IF s # << >> /\ IsSpace(s[Len(s)])
    THEN TrimEnd(SubSeq(s, 1, Len(s) - 1))
    ELSE s

Trim(s) == TrimEnd(TrimStart(s))

\* s.startsWith(prefix)
StartsWith(s, prefix) ==
  Len(prefix) <= Len(s) /\ SubSeq(s, 1, Len(prefix)) = prefix

\* s.replace(pattern, ''), pattern a string: the first occurrence is removed.
RemoveFirst(s, pattern) ==
  IF \E i \in 0..(Len(s) - Len(pattern)) :
       SubSeq(s, i + 1, i + Len(pattern)) = pattern
    THEN LET i == CHOOSE i \in 0..(Len(s) - Len(pattern)) :
                    /\ SubSeq(s, i + 1, i + Len(pattern)) = pattern
                    /\ \A j \in 0..(i - 1) :
                         SubSeq(s, j + 1, j + Len(pattern)) # pattern
         IN SubSeq(s, 1, i) \o SubSeq(s, i + Len(pattern) + 1, Len(s))
    ELSE s

\* The hexadecimal digits, in lower and in upper case.
HexLower ==
  <<"0", "1", "2", "3", "4", "5", "6", "7", "8", "9", "a", "b", "c", "d",
    "e", "f">>

HexUpper ==
  <<"0", "1", "2", "3", "4", "5", "6", "7", "8", "9", "A", "B", "C", "D",
    "E", "F">>

IsHexDigit(c) == \E i \in 1..16 : HexLower[i] = c \/ HexUpper[i] = c

HexDigitValue(c) ==
  (CHOOSE i \in 1..16 : HexLower[i] = c \/ HexUpper[i] = c) - 1

\* The longest prefix of s made of decimal digits, and of hexadecimal ones.
RECURSIVE DecimalPrefix(_)
DecimalPrefix(s) ==
  IF s # << >> /\ IsDigit(Head(s))
    THEN <<Head(s)>> \o DecimalPrefix(Tail(s))
    ELSE << >>

RECURSIVE HexPrefix(_)
HexPrefix(s) ==
  IF s # << >> /\ IsHexDigit(Head(s))
    THEN <<Head(s)>> \o HexPrefix(Tail(s))
    ELSE << >>

RECURSIVE HexValue(_)
HexValue(s) ==
  IF s = << >> THEN 0
  ELSE 16 * HexValue(SubSeq(s, 1, Len(s) - 1)) + HexDigitValue(s[Len(s)])

\* parseInt(s) without a radix: leading white space is skipped, a sign is
\* read, a 0x or 0X prefix selects base 16, and the longest prefix of digits
\* is the number; without a digit the result is NaN.
ParseInt(s) ==
  LET t == TrimStart(s)
      negative == t # << >> /\ Head(t) = "-"
      u == IF t # << >> /\ Head(t) \in {"-", "+"} THEN Tail(t) ELSE t
      hex == StartsWith(u, <<"0", "x">>) \/ StartsWith(u, <<"0", "X">>)
      digits == IF hex THEN HexPrefix(SubSeq(u, 3, Len(u)))
                ELSE DecimalPrefix(u)
      value == IF hex THEN HexValue(digits) ELSE DecimalValue(digits)
  IN IF digits = << >> THEN NaN
     ELSE Num(IF negative THEN -value ELSE value)


(***************************************************************************)
(* The string literals of loadConfig (lines 971-1185).                     *)
(***************************************************************************)
LitAcmeCorp == <<"A", "c", "m", "e", " ", "C", "o", "r", "p">>

LitGeneral == <<"g", "e", "n", "e", "r", "a", "l">>

LitPrimary == <<"#", "2", "5", "6", "3", "e", "b">>

LitPrimaryDark == <<"#", "1", "e", "4", "0", "a", "f">>

LitSecondary == <<"#", "6", "4", "7", "4", "8", "b">>

LitAccent == <<"#", "f", "5", "9", "e", "0", "b">>

LitText == <<"#", "1", "f", "2", "9", "3", "7">>

LitTextLight == <<"#", "6", "b", "7", "2", "8", "0">>

LitBackground == <<"#", "f", "f", "f", "f", "f", "f">>

LitSurface == <<"#", "f", "9", "f", "a", "f", "b">>

LitInter == <<"I", "n", "t", "e", "r">>

LitModern == <<"m", "o", "d", "e", "r", "n">>

LitGetStarted == <<"G", "e", "t", " ", "S", "t", "a", "r", "t", "e", "d">>

LitContactUrl == <<"/", "c", "o", "n", "t", "a", "c", "t">>

LitCallNow == <<"C", "a", "l", "l", " ", "N", "o", "w">>

LitTel == <<"t", "e", "l", ":">>

LitOurServices ==
  <<"O", "u", "r", " ", "S", "e", "r", "v", "i", "c", "e", "s">>

LitStar == <<"s", "t", "a", "r">>

LitWhyChooseUs ==
  <<"W", "h", "y", " ", "C", "h", "o", "o", "s", "e", " ", "U", "s">>

LitCheck == <<"c", "h", "e", "c", "k">>

LitTitlePrefix == <<"%", "s", " ", "|", " ">>

LitHoursDisplay ==
  <<"M", "o", "n", "-", "F", "r", "i", ":", " ", "9", "A", "M", "-", "5",
    "P", "M">>

LitOgImage ==
  <<"/", "i", "m", "a", "g", "e", "s", "/", "o", "g", "-", "i", "m", "a",
    "g", "e", ".", "p", "n", "g">>

LitStandard == <<"s", "t", "a", "n", "d", "a", "r", "d">>

LitBeforeCta == <<"b", "e", "f", "o", "r", "e", "-", "c", "t", "a">>

LitEnUS == <<"e", "n", "-", "U", "S">>

LitNewYork ==
  <<"A", "m", "e", "r", "i", "c", "a", "/", "N", "e", "w", "_", "Y", "o",
    "r", "k">>

LitCopyrightSign == <<"©", " ">>

LitAllRightsReserved ==
  <<".", " ", "A", "l", "l", " ", "r", "i", "g", "h", "t", "s", " ", "r",
    "e", "s", "e", "r", "v", "e", "d", ".">>

\* Lines 1258-1260.
LitNewBusiness ==
  <<"N", "e", "w", " ", "b", "u", "s", "i", "n", "e", "s", "s">>

LitOneYear ==
  <<"1", " ", "y", "e", "a", "r", " ", "i", "n", " ", "b", "u", "s", "i", "n",
    "e", "s", "s">>

LitYearsSuffix ==
  <<"+", " ", "y", "e", "a", "r", "s", " ", "i", "n", " ", "b", "u", "s", "i",
    "n", "e", "s", "s">>

\* Lines 1251-1252: the separator of the address parts.
LitCommaSpace == <<",", " ">>


(***************************************************************************)
(* loadConfig (lines 959-1187).  config is the value YAML.parse returned,  *)
(* currentYear the value of new Date().getFullYear().  Each local of the    *)
(* function is an operator of the same name.                               *)
(***************************************************************************)

\* (x || []).filter(c => c): the truthy elements, in order.
FilterTruthy(a) == Arr(SelectSeq(a.v, Truthy))

\* Whether (x || []).map(item => item.key ...) raises a TypeError: x is truthy
\* and has no map method, or an element is null or undefined.
MapThrows(x) ==
  LET a == Or(x, EmptyArr)
  IN \/ ~IsArray(a)
     \/ \E i \in 1..Len(a.v) : Nullish(a.v[i])

\* Whether (x || []).filter(...) raises a TypeError: x is truthy and has no
\* filter method.
FilterThrows(x) == ~IsArray(Or(x, EmptyArr))

\* Lines 965-967.
YearFounded(config, currentYear) ==
  Or(Opt2(config, "business", "year_founded"), Num(currentYear))

\* Mutant: the years read from the document when it gives them.
YearsInBusiness_FromInput(config, currentYear) ==
  Or(Opt2(config, "trust", "years_in_business"),
     Minus(Num(currentYear), YearFounded(config, currentYear)))

YearsInBusiness(config, currentYear) ==
  Minus(Num(currentYear), YearFounded(config, currentYear))

\* Mutant: site.name taken before business.name.
BusinessName_SiteFirst(config) ==
  Or(Or(Opt2(config, "site", "name"), Opt2(config, "business", "name")),
     Str(LitAcmeCorp))

\* Line 971.
BusinessName(config) ==
  Or(Or(Opt2(config, "business", "name"), Opt2(config, "site", "name")),
     Str(LitAcmeCorp))

\* Lines 970-977.
Business(config, currentYear) ==
  [name |-> BusinessName(config),
   legalName |->
     Or(Or(Or(Opt2(config, "business", "legal_name"),
              Opt2(config, "business", "name")),
           Opt2(config, "site", "name")),
        Str(LitAcmeCorp)),
   tagline |->
     Or(Or(Opt2(config, "business", "tagline"),
           Opt2(config, "site", "tagline")), EmptyStr),
   description |->
     Or(Or(Opt2(config, "business", "description"),
           Opt2(config, "site", "description")), EmptyStr),
   yearFounded |-> YearFounded(config, currentYear),
   industry |-> Or(Opt2(config, "business", "industry"), Str(LitGeneral))]

\* Lines 980-1000.
Branding(config) ==
  [colors |->
     [primary |->
        Or(Opt3(config, "branding", "colors", "primary"), Str(LitPrimary)),
      primaryDark |->
        Or(Opt3(config, "branding", "colors", "primary_dark"),
           Str(LitPrimaryDark)),
      secondary |->
        Or(Opt3(config, "branding", "colors", "secondary"),
           Str(LitSecondary)),
      accent |->
        Or(Opt3(config, "branding", "colors", "accent"), Str(LitAccent)),
      text |-> Or(Opt3(config, "branding", "colors", "text"), Str(LitText)),
      textLight |->
        Or(Opt3(config, "branding", "colors", "text_light"),
           Str(LitTextLight)),
      background |->
        Or(Opt3(config, "branding", "colors", "background"),
           Str(LitBackground)),
      surface |->
        Or(Opt3(config, "branding", "colors", "surface"), Str(LitSurface))],
   fonts |->
     [heading |->
        Or(Opt3(config, "branding", "fonts", "heading"), Str(LitInter)),
      body |-> Or(Opt3(config, "branding", "fonts", "body"), Str(LitInter))],
   style |-> Or(Opt2(config, "branding", "style"), Str(LitModern)),
   logo |->
     [text |-> Or(Opt3(config, "branding", "logo", "text"), EmptyStr),
      showIcon |->
        Coalesce(Opt3(config, "branding", "logo", "show_icon"), Bool(TRUE))]]

\* Line 1009.
Certifications(config) ==
  FilterTruthy(Or(Opt2(config, "trust", "certifications"), EmptyArr))

\* Lines 1003-1013.
Trust(config, currentYear) ==
  [showYearsInBusiness |->
     Coalesce(Opt2(config, "trust", "show_years_in_business"), Bool(TRUE)),
   yearsInBusiness |-> YearsInBusiness(config, currentYear),
   customersServed |-> Or(Opt2(config, "trust", "customers_served"), EmptyStr),
   satisfactionRate |->
     Or(Opt2(config, "trust", "satisfaction_rate"), EmptyStr),
   responseTime |-> Or(Opt2(config, "trust", "response_time"), EmptyStr),
   certifications |-> Certifications(config),
   awards |-> Or(Opt2(config, "trust", "awards"), EmptyArr),
   affiliations |-> Or(Opt2(config, "trust", "affiliations"), EmptyArr),
   guarantees |-> Or(Opt2(config, "trust", "guarantees"), EmptyArr)]

\* Line 1023.
SecondaryUrl(config) ==
  Or(Opt3(config, "cta", "secondary", "url"),
     Str(LitTel \o ToStr(Or(Opt2(config, "contact", "phone_raw"), EmptyStr))))

\* Lines 1016-1026.
Cta(config) ==
  [primary |->
     [text |-> Or(Opt3(config, "cta", "primary", "text"), Str(LitGetStarted)),
      url |-> Or(Opt3(config, "cta", "primary", "url"), Str(LitContactUrl))],
   secondary |->
     [text |-> Or(Opt3(config, "cta", "secondary", "text"), Str(LitCallNow)),
      url |-> SecondaryUrl(config)],
   urgency |-> Or(Opt2(config, "cta", "urgency"), EmptyStr)]

\* Lines 1033-1038: the callback of services.items.map.
ServiceItem(s) ==
  [name |-> Or(Prop(s, "name"), EmptyStr),
   description |-> Or(Prop(s, "description"), EmptyStr),
   icon |-> Or(Prop(s, "icon"), Str(LitStar)),
   url |-> Or(Prop(s, "url"), EmptyStr)]

\* Line 1033.
ServiceItems(config) ==
  LET a == Or(Opt2(config, "services", "items"), EmptyArr)
  IN Arr([i \in 1..Len(a.v) |-> ServiceItem(a.v[i])])

\* Lines 1029-1039.
Services(config) ==
  [enabled |-> Coalesce(Opt2(config, "services", "enabled"), Bool(TRUE)),
   headline |-> Or(Opt2(config, "services", "headline"), Str(LitOurServices)),
   subheadline |-> Or(Opt2(config, "services", "subheadline"), EmptyStr),
   items |-> ServiceItems(config)]

\* Lines 1045-1049: the callback of value_props.items.map.
ValuePropItem(v) ==
  [title |-> Or(Prop(v, "title"), EmptyStr),
   description |-> Or(Prop(v, "description"), EmptyStr),
   icon |-> Or(Prop(v, "icon"), Str(LitCheck))]

\* Line 1045.
ValuePropItems(config) ==
  LET a == Or(Opt2(config, "value_props", "items"), EmptyArr)
  IN Arr([i \in 1..Len(a.v) |-> ValuePropItem(a.v[i])])

\* Lines 1042-1050.
ValueProps(config) ==
  [enabled |-> Coalesce(Opt2(config, "value_props", "enabled"), Bool(TRUE)),
   headline |->
     Or(Opt2(config, "value_props", "headline"), Str(LitWhyChooseUs)),
   items |-> ValuePropItems(config)]

\* Mutant: the flags defaulted with || in place of ??.
Features_Truthy(config) ==
  [blog |-> Or(Opt2(config, "features", "blog"), Bool(TRUE)),
   contactForm |-> Or(Opt2(config, "features", "contact_form"), Bool(TRUE)),
   reviews |-> Or(Opt2(config, "features", "reviews"), Bool(TRUE)),
   servicesSection |->
     Or(Opt2(config, "features", "services_section"), Bool(TRUE)),
   newsletter |-> Or(Opt2(config, "features", "newsletter"), Bool(FALSE)),
   chat |-> Or(Opt2(config, "features", "chat"), Bool(FALSE)),
   booking |-> Or(Opt2(config, "features", "booking"), Bool(FALSE))]

\* Lines 1053-1061.
Features(config) ==
  [blog |-> Coalesce(Opt2(config, "features", "blog"), Bool(TRUE)),
   contactForm |->
     Coalesce(Opt2(config, "features", "contact_form"), Bool(TRUE)),
   reviews |-> Coalesce(Opt2(config, "features", "reviews"), Bool(TRUE)),
   servicesSection |->
     Coalesce(Opt2(config, "features", "services_section"), Bool(TRUE)),
   newsletter |-> Coalesce(Opt2(config, "features", "newsletter"), Bool(FALSE)),
   chat |-> Coalesce(Opt2(config, "features", "chat"), Bool(FALSE)),
   booking |-> Coalesce(Opt2(config, "features", "booking"), Bool(FALSE))]

\* Mutant: the keywords without their default.
Keywords_NoDefault(config) == Opt2(config, "seo", "keywords")

\* Line 1068.
Keywords(config) == Or(Opt2(config, "seo", "keywords"), EmptyArr)

\* Lines 1064-1069.
Seo(config, currentYear) ==
  [titleTemplate |->
     Or(Opt2(config, "seo", "title_template"),
        Str(LitTitlePrefix \o ToStr(BusinessName(config)))),
   defaultTitle |->
     Or(Opt2(config, "seo", "default_title"), BusinessName(config)),
   defaultDescription |->
     Or(Opt2(config, "seo", "default_description"),
        Business(config, currentYear).description),
   keywords |-> Keywords(config)]

\* Line 1073.
CopyrightHolder(config) ==
  Or(Opt2(config, "legal", "copyright_holder"), BusinessName(config))

\* Lines 1072-1077.
Legal(config) ==
  [copyrightHolder |-> CopyrightHolder(config),
   privacyEmail |->
     Or(Or(Opt2(config, "legal", "privacy_email"),
           Opt2(config, "contact", "email")), EmptyStr),
   termsLastUpdated |->
     Or(Opt2(config, "legal", "terms_last_updated"), EmptyStr),
   privacyLastUpdated |->
     Or(Opt2(config, "legal", "privacy_last_updated"), EmptyStr)]

\* Mutant: contact.phone_local taken before contact.phone.
PhoneDisplay_LocalFirst(config) ==
  Or(Or(Opt2(config, "contact", "phone_local"),
        Opt2(config, "contact", "phone")), EmptyStr)

\* Line 1080.
PhoneDisplay(config) ==
  Or(Or(Opt2(config, "contact", "phone"),
        Opt2(config, "contact", "phone_local")), EmptyStr)

\* Line 1081: phoneDisplay.replace is reached only when phone_raw is falsy,
\* and is a function only when phoneDisplay is a string.
PhoneRawThrows(config) ==
  /\ ~Truthy(Opt2(config, "contact", "phone_raw"))
  /\ PhoneDisplay(config).k # "str"

PhoneRaw(config) ==
  Or(Opt2(config, "contact", "phone_raw"),
     Str(StripNonDigits(PhoneDisplay(config).v)))

\* Line 1084.
HoursDetailed(config) ==
  Or(Or(Opt2(config, "hours", "detailed"), Prop(config, "hours")), EmptyObj)

\* Mutant: the two shapes merged weekday by weekday.
Weekday_Merged(config, day) ==
  Or(Or(Opt3(config, "hours", "detailed", day), Opt2(config, "hours", day)),
     EmptyStr)

\* Lines 1127-1133, one weekday.
Weekday(config, day) == Or(Prop(HoursDetailed(config), day), EmptyStr)

\* Lines 1125-1134.
Hours(config) ==
  [display |-> Or(Opt2(config, "hours", "display"), Str(LitHoursDisplay)),
   monday |-> Weekday(config, "monday"),
   tuesday |-> Weekday(config, "tuesday"),
   wednesday |-> Weekday(config, "wednesday"),
   thursday |-> Weekday(config, "thursday"),
   friday |-> Weekday(config, "friday"),
   saturday |-> Weekday(config, "saturday"),
   sunday |-> Weekday(config, "sunday")]

\* Lines 1136-1140: the callback of hours.structured.map.
HoursStructuredItem(h) ==
  [days |-> Or(Prop(h, "days"), EmptyArr),
   open |-> Or(Prop(h, "open"), EmptyStr),
   close |-> Or(Prop(h, "close"), EmptyStr)]

\* Line 1136.
HoursStructured(config) ==
  LET a == Or(Opt2(config, "hours", "structured"), EmptyArr)
  IN Arr([i \in 1..Len(a.v) |-> HoursStructuredItem(a.v[i])])

\* Lines 1163-1168: the callback of reviews.pages.map.
ReviewPage(p) ==
  [path |-> Prop(p, "path"),
   layout |-> Or(Prop(p, "layout"), Str(LitStandard)),
   position |-> Or(Prop(p, "position"), Str(LitBeforeCta)),
   maxReviews |-> Or(Prop(p, "max_reviews"), Num(3))]

\* Line 1163.
ReviewPages(config) ==
  LET a == Or(Opt2(config, "reviews", "pages"), EmptyArr)
  IN Arr([i \in 1..Len(a.v) |-> ReviewPage(a.v[i])])

\* Lines 1161-1170.
Reviews(config) ==
  [enabled |-> Coalesce(Opt2(config, "reviews", "enabled"), Bool(TRUE)),
   pages |-> ReviewPages(config),
   tagged |-> Or(Opt2(config, "reviews", "tagged"), EmptyObj)]

\* Mutant: a copyright string of the document taken as it is.
Copyright_FromInput(config, currentYear) ==
  Or(Prop(config, "copyright"),
     Str(LitCopyrightSign \o IntToStr(currentYear) \o <<" ">>
         \o ToStr(CopyrightHolder(config)) \o LitAllRightsReserved))

\* Line 1172.
Copyright(config, currentYear) ==
  Str(LitCopyrightSign \o IntToStr(currentYear) \o <<" ">>
      \o ToStr(CopyrightHolder(config)) \o LitAllRightsReserved)

\* The TypeErrors loadConfig can raise once the document has been parsed:
\* line 966 reads a property of config itself, lines 1009, 1033, 1045, 1136
\* and 1163 call an array method on whatever the document holds, and line
\* 1081 calls a string method on the display phone.
LoadConfigThrows(config) ==
  \/ Nullish(config)
  \/ FilterThrows(Opt2(config, "trust", "certifications"))
  \/ MapThrows(Opt2(config, "services", "items"))
  \/ MapThrows(Opt2(config, "value_props", "items"))
  \/ PhoneRawThrows(config)
  \/ MapThrows(Opt2(config, "hours", "structured"))
  \/ MapThrows(Opt2(config, "reviews", "pages"))

\* Lines 1086-1186: the object loadConfig returns.
LoadConfig(config, currentYear) ==
  [name |-> Business(config, currentYear).name,
   tagline |-> Business(config, currentYear).tagline,
   description |-> Business(config, currentYear).description,
   url |-> Or(Opt2(config, "site", "url"), EmptyStr),
   defaultOgImage |->
     Or(Opt2(config, "site", "default_og_image"), Str(LitOgImage)),
   contact |->
     [email |-> Or(Opt2(config, "contact", "email"), EmptyStr),
      phone |-> PhoneDisplay(config),
      phoneRaw |-> PhoneRaw(config),
      phoneLocal |-> PhoneDisplay(config),
      address |->
        [street |-> Or(Opt3(config, "contact", "address", "street"), EmptyStr),
         suite |-> Or(Opt3(config, "contact", "address", "suite"), EmptyStr),
         city |-> Or(Opt3(config, "contact", "address", "city"), EmptyStr),
         state |-> Or(Opt3(config, "contact", "address", "state"), EmptyStr),
         zip |-> Or(Opt3(config, "contact", "address", "zip"), EmptyStr),
         country |->
           Or(Opt3(config, "contact", "address", "country"), EmptyStr)],
      serviceArea |-> Or(Opt2(config, "contact", "service_area"), EmptyStr)],
   social |->
     [facebook |-> Or(Opt2(config, "social", "facebook"), EmptyStr),
      instagram |-> Or(Opt2(config, "social", "instagram"), EmptyStr),
      twitter |-> Or(Opt2(config, "social", "twitter"), EmptyStr),
      linkedin |-> Or(Opt2(config, "social", "linkedin"), EmptyStr),
      youtube |-> Or(Opt2(config, "social", "youtube"), EmptyStr),
      tiktok |-> Or(Opt2(config, "social", "tiktok"), EmptyStr),
      pinterest |-> Or(Opt2(config, "social", "pinterest"), EmptyStr),
      yelp |-> Or(Opt2(config, "social", "yelp"), EmptyStr),
      googleBusiness |->
        Or(Opt2(config, "social", "google_business"), EmptyStr),
      nextdoor |-> Or(Opt2(config, "social", "nextdoor"), EmptyStr),
      bbb |-> Or(Opt2(config, "social", "bbb"), EmptyStr),
      whatsapp |-> Or(Opt2(config, "social", "whatsapp"), EmptyStr)],
   hours |-> Hours(config),
   hoursStructured |-> HoursStructured(config),
   navigation |-> Or(Opt2(config, "navigation", "main"), EmptyArr),
   footerLinks |->
     [quickLinks |->
        Or(Or(Opt3(config, "navigation", "footer", "quick_links"),
              Opt3(config, "navigation", "footer", "quickLinks")), EmptyArr),
      legal |-> Or(Opt3(config, "navigation", "footer", "legal"), EmptyArr)],
   analytics |->
     [googleAnalytics |->
        [enabled |->
           Or(Opt3(config, "analytics", "google_analytics", "enabled"),
              Bool(FALSE)),
         measurementId |->
           Or(Opt3(config, "analytics", "google_analytics", "measurement_id"),
              EmptyStr)],
      googleTagManager |->
        [enabled |->
           Or(Opt3(config, "analytics", "google_tag_manager", "enabled"),
              Bool(FALSE)),
         containerId |->
           Or(Opt3(config, "analytics", "google_tag_manager", "container_id"),
              EmptyStr)],
      googleSiteVerification |->
        Or(Opt2(config, "analytics", "google_site_verification"), EmptyStr)],
   reviews |-> Reviews(config),
   copyright |-> Copyright(config, currentYear),
   business |-> Business(config, currentYear),
   branding |-> Branding(config),
   trust |-> Trust(config, currentYear),
   cta |-> Cta(config),
   services |-> Services(config),
   valueProps |-> ValueProps(config),
   features |-> Features(config),
   seo |-> Seo(config, currentYear),
   legal |-> Legal(config),
   locale |-> Or(Opt2(config, "site", "locale"), Str(LitEnUS)),
   timezone |-> Or(Opt2(config, "site", "timezone"), Str(LitNewYork))]


(***************************************************************************)
(* The documents config.yaml is drawn from.  Each family varies the keys   *)
(* one part of loadConfig reads, over every kind of value YAML can put     *)
(* there, and leaves the other sections out.                               *)
(***************************************************************************)
BaseYear == 2026

YearSpan == 1

MaxAge == 3

MaxPhoneLen == 2

MaxItems == 2

MaxDaysSet == 1

MaxAnswerLen == 2

Years == BaseYear..(BaseYear + YearSpan)

SeqsUpTo(S, n) == UNION {[1..m -> S] : m \in 0..n}

StrX == Str(<<"X">>)

StrY == Str(<<"Y">>)

\* A section of the document: absent, null, or an object with the given keys.
Sections(objects) == {Undefined, Null} \cup objects

\* Documents that are not a mapping of sections to mappings: the empty
\* document (YAML.parse gives null), the empty object, scalars, a sequence,
\* and mappings whose sections are null, scalars or empty.
SectionKeys ==
  {"business", "site", "contact", "hours", "trust", "cta", "services",
   "value_props", "features", "seo", "legal", "reviews", "branding",
   "social", "navigation", "analytics"}

ShapeDocs ==
  {Null, EmptyObj, StrX, Num(7), Bool(TRUE), EmptyArr, Arr(<<StrX>>)}
    \cup {Obj([key \in SectionKeys |-> x]) :
            x \in {Null, EmptyObj, EmptyStr, StrX, Num(7), EmptyArr}}

\* business.name, site.name, legal.copyright_holder and a literal copyright.
NameVals == {Undefined, Null, EmptyStr, StrX, StrY, Num(7)}

NameDocs ==
  {MkObj([business |-> b, site |-> s, legal |-> l, copyright |-> c]) :
     b \in Sections({MkObj([name |-> x]) : x \in NameVals}),
     s \in Sections({MkObj([name |-> x]) : x \in NameVals}),
     l \in Sections({MkObj([copyright_holder |-> x]) : x \in NameVals}),
     c \in {Undefined, StrY}}

\* contact.phone, contact.phone_local, contact.phone_raw, cta.secondary.url.
PhoneChars == {"5", "-", "("}

SamplePhone ==
  Str(<<"(", "5", "5", "5", ")", " ", "5", "5", "5", "-", "0", "1", "0",
        "0">>)

PhoneVals ==
  {Undefined, Null, Num(5550100), SamplePhone}
    \cup {Str(s) : s \in SeqsUpTo(PhoneChars, MaxPhoneLen)}

PhoneLocalVals == {Undefined, Str(<<"5", "-", "1">>), Num(51)}

PhoneRawVals ==
  {Undefined, Null, EmptyStr, Str(<<"+", "1", "5">>), Num(0), Num(15)}

SecondaryUrlVals == {Undefined, EmptyStr, Str(<<"/", "c">>)}

PhoneDocs ==
  {MkObj([contact |-> c, cta |-> a]) :
     c \in Sections({MkObj([phone |-> p, phone_local |-> l, phone_raw |-> r]) :
                       p \in PhoneVals, l \in PhoneLocalVals,
                       r \in PhoneRawVals}),
     a \in {Undefined} \cup
           {MkObj([secondary |-> MkObj([url |-> u])]) :
              u \in SecondaryUrlVals}}

\* business.year_founded and years_in_business-shaped keys.
YearFoundedVals ==
  {Undefined, Null, Num(0), Bool(TRUE), StrX,
   Str(<<"1", "9", "9", "0">>)}
    \cup {Num(y) : y \in (BaseYear - MaxAge)..(BaseYear + YearSpan + 1)}

YearDocs ==
  {MkObj([business |-> b, trust |-> tr, years_in_business |-> Num(98)]) :
     b \in Sections({MkObj([year_founded |-> y, years_in_business |-> Num(97)]) :
                       y \in YearFoundedVals}),
     tr \in {Undefined,
             MkObj([years_in_business |-> Num(99)]),
             MkObj([yearsInBusiness |-> Num(99)])}}

\* services.items, value_props.items, trust.certifications, seo.keywords.
ItemVals ==
  {Null, StrX, EmptyObj, MkObj([name |-> StrX, title |-> StrX]),
   MkObj([name |-> StrY, title |-> StrY, icon |-> StrX, url |-> StrY,
          description |-> StrX])}

ItemsVals ==
  {Undefined, Null, StrX, EmptyObj}
    \cup {Arr(s) : s \in SeqsUpTo(ItemVals, MaxItems)}

TextsVals ==
  {Undefined, Null, StrX, EmptyObj}
    \cup {Arr(s) : s \in SeqsUpTo({StrX, StrY, EmptyStr, Null}, MaxItems)}

FewItemsVals == {Undefined, Arr(<<EmptyObj>>)}

FewTextsVals == {Undefined, Arr(<<StrX>>)}

SeqDoc(si, vi, ce, kw) ==
  MkObj([services |-> MkObj([items |-> si, headline |-> StrX]),
         value_props |-> MkObj([items |-> vi, enabled |-> Bool(FALSE)]),
         trust |-> MkObj([certifications |-> ce, awards |-> Arr(<<StrY>>)]),
         seo |-> MkObj([keywords |-> kw, default_title |-> StrY])])

SeqDocs ==
  {SeqDoc(si, vi, ce, kw) :
     si \in ItemsVals, vi \in FewItemsVals, ce \in FewTextsVals,
     kw \in FewTextsVals}
    \cup {SeqDoc(si, vi, ce, kw) :
            si \in FewItemsVals, vi \in ItemsVals, ce \in FewTextsVals,
            kw \in FewTextsVals}
    \cup {SeqDoc(si, vi, ce, kw) :
            si \in FewItemsVals, vi \in FewItemsVals, ce \in TextsVals,
            kw \in FewTextsVals}
    \cup {SeqDoc(si, vi, ce, kw) :
            si \in FewItemsVals, vi \in FewItemsVals, ce \in FewTextsVals,
            kw \in TextsVals}

\* hours: the flat weekday keys and hours.detailed.
Days ==
  {"monday", "tuesday", "wednesday", "thursday", "friday", "saturday",
   "sunday"}

WeekdayVals == {Str(<<"9", "-", "5">>), Str(<<"1", "0", "-", "4">>)}

\* The weekday maps that set at most MaxDaysSet weekdays.
DayMaps ==
  {f \in [Days -> WeekdayVals \cup {Undefined}] :
     Cardinality({d \in Days : f[d] # Undefined}) <= MaxDaysSet}

DetailedVals == {Undefined, Null, StrX} \cup {MkObj(f) : f \in DayMaps}

HoursObj(flat, detailed) ==
  MkObj([key \in Days \cup {"detailed"} |->
           IF key = "detailed" THEN detailed ELSE flat[key]])

HoursDocs ==
  {MkObj([hours |-> h]) :
     h \in {Undefined, Null, StrX}
             \cup {HoursObj(flat, d) : flat \in DayMaps, d \in DetailedVals}}

\* features: each of the seven flags absent, true or false, and the seven
\* flags all null or all of one non-boolean value.
FlagKeys ==
  {"blog", "contact_form", "reviews", "services_section", "newsletter",
   "chat", "booking"}

FlagVals == {Undefined, Bool(TRUE), Bool(FALSE)}

FeatureDocs ==
  {MkObj([features |-> MkObj(f)]) : f \in [FlagKeys -> FlagVals]}
    \cup {MkObj([features |-> MkObj([key \in FlagKeys |-> x])]) :
            x \in {Null, Num(0), EmptyStr, StrX}}

\* reviews.pages: entries with and without a path and a max_reviews of every
\* kind, entries that are no mapping, and a pages key that is no sequence.
PathHome == Str(<<"/">>)

PathContact == Str(<<"/", "c">>)

PathAbout == Str(<<"/", "a">>)

MaxReviewsVals ==
  {Undefined, Null, Num(0), Num(1), Num(2), Str(<<"2">>), Bool(TRUE)}

PageVals ==
  {MkObj([path |-> p, max_reviews |-> m]) :
     p \in {Undefined, PathContact}, m \in MaxReviewsVals}
    \cup {StrX, Null}

PageDocs ==
  {MkObj([reviews |-> MkObj([pages |-> pg])]) :
     pg \in {Null, StrX, EmptyObj}
              \cup {Arr(s) : s \in SeqsUpTo(PageVals, MaxItems)}}

\* reviews.enabled, reviews.pages and reviews.tagged as a site gives them,
\* with review ids A to D: two pages sharing a path, a page without
\* max_reviews, a tag given as a string in place of a list, a tag left empty.
ReviewPage1(path, max) == MkObj([path |-> path, max_reviews |-> max])

ReviewPagesVals ==
  {Undefined,
   Arr(<<ReviewPage1(PathContact, Num(1))>>),
   Arr(<<ReviewPage1(PathContact, Undefined)>>),
   Arr(<<MkObj([path |-> PathContact, max_reviews |-> Num(1),
                layout |-> StrX]),
         ReviewPage1(PathContact, Num(2))>>),
   Arr(<<ReviewPage1(PathAbout, Num(2)), ReviewPage1(PathHome, Num(0))>>)}

TaggedVals ==
  {Undefined,
   MkObj([A |-> Arr(<<PathContact>>), B |-> Arr(<<PathContact>>),
          C |-> Arr(<<PathAbout>>)]),
   MkObj([A |-> Arr(<<PathContact>>), B |-> Arr(<<PathAbout, PathContact>>),
          C |-> Arr(<<PathContact>>), D |-> Arr(<<PathContact>>)]),
   MkObj([B |-> PathContact]),
   MkObj([A |-> Arr(<<PathContact>>), B |-> Null])}

ReviewDoc(en, pg, tg) ==
  MkObj([reviews |-> MkObj([enabled |-> en, pages |-> pg, tagged |-> tg])])

ReviewDocs ==
  {ReviewDoc(en, pg, tg) :
     en \in {Undefined, Bool(FALSE)}, pg \in ReviewPagesVals,
     tg \in TaggedVals}
    \cup {ReviewDoc(en, Arr(<<ReviewPage1(PathContact, Num(1))>>),
                    MkObj([A |-> Arr(<<PathContact>>)])) :
            en \in {Bool(TRUE), Num(0), Null}}

\* business.year_founded and contact.address, which the two text helpers read.
AddressDocs ==
  {MkObj([business |-> MkObj([year_founded |-> Num(BaseYear - age)]),
          contact |->
            MkObj([address |->
                     MkObj([street |-> StrX, suite |-> su, city |-> StrY,
                            zip |-> Num(7)])])]) :
     age \in 0..MaxAge, su \in {Undefined, StrY}}

\* data/reviews.json: missing, not JSON, null, without a reviews key, with a
\* reviews key that is no list, with a null entry, and with reviews A to D
\* in two orders.
ReviewRecord(id) ==
  MkObj([id |-> Str(<<id>>), author |-> StrX, rating |-> Num(5)])

MissingFile == [state |-> "missing", doc |-> Undefined]

ReviewFiles ==
  {MissingFile, [state |-> "unparsable", doc |-> Undefined]}
    \cup {[state |-> "parsed", doc |-> d] :
            d \in {Null, EmptyObj, MkObj([reviews |-> StrX]),
                   MkObj([reviews |-> Arr(<<ReviewRecord("A"), Null>>)]),
                   MkObj([reviews |->
                            Arr(<<ReviewRecord("A"), ReviewRecord("B"),
                                  ReviewRecord("C"), ReviewRecord("D")>>)]),
                   MkObj([reviews |->
                            Arr(<<ReviewRecord("D"),
                                  MkObj([id |-> Str(<<"C">>),
                                         hasPhoto |-> Bool(TRUE)]),
                                  ReviewRecord("B")>>)])}}

\* What config.yaml is rewritten to while the process runs.
RewrittenConfig ==
  [state |-> "parsed",
   doc |-> MkObj([business |-> MkObj([name |-> StrY]),
                  reviews |-> MkObj([enabled |-> Bool(FALSE)])])]

ReviewInputs ==
  {[file |-> [state |-> "parsed", doc |-> d], year |-> BaseYear,
    reviews |-> f] : d \in ReviewDocs \cup AddressDocs, f \in ReviewFiles}

Inputs ==
  {[file |-> [state |-> s, doc |-> Undefined], year |-> BaseYear] :
     s \in {"missing", "unparsable"}}
    \cup {[file |-> [state |-> "parsed", doc |-> d], year |-> y] :
            d \in ShapeDocs \cup NameDocs \cup YearDocs, y \in Years}
    \cup {[file |-> [state |-> "parsed", doc |-> d], year |-> BaseYear] :
            d \in PhoneDocs \cup SeqDocs \cup HoursDocs \cup FeatureDocs
                    \cup PageDocs}

(***************************************************************************)
(* The process.  configFile is config.yaml as fs.readFileSync and          *)
(* YAML.parse find it (missing, unparsable, or parsed to a document),      *)
(* currentYear the calendar year of the process's clock, proc the          *)
(* process's position (before the module is loaded, running with the       *)
(* module loaded, or aborted by the exception the load raised), and        *)
(* siteConfig the module-level constant of line 1244.                      *)
(*                                                                         *)
(* The setup wizard is a process of its own.  wizard is its position        *)
(* (constructed, running, generating, complete, or failed with the call     *)
(* that raised), outstanding the questions handed to readline and not yet   *)
(* answered, lastAnswer the line most recently read with the value its      *)
(* prompt resolved to, data the wizard's this.data, steps the calls of run  *)
(* that have returned, in order, crawl what extractFromWebsite found and    *)
(* returned, tempFile whether .extracted_data.json exists, template what    *)
(* generateConfig read, and writes the files written, in order.             *)
(***************************************************************************)
VARIABLES configFile, currentYear, proc, siteConfig, reviewsFile, lastCall,
          prevCall, wizard, outstanding, lastAnswer, data, steps, crawl,
          tempFile, template, writes

siteVars ==
  <<configFile, currentYear, proc, siteConfig, reviewsFile, lastCall,
    prevCall>>

wizardVars ==
  <<wizard, outstanding, lastAnswer, data, steps, crawl, tempFile, template,
    writes>>

vars == <<siteVars, wizardVars>>

NotLoaded == [k |-> "not loaded"]

(***************************************************************************)
(* The reviews accessor.  reviewsFile is data/reviews.json as              *)
(* fs.readFileSync and JSON.parse find it at the moment of a call;         *)
(* lastCall and prevCall are what the two most recent calls of the         *)
(* exported functions did and gave back to their callers.                  *)
(***************************************************************************)

\* Lines 1198-1205: the callback of data.reviews.map.
Review(r) ==
  [id |-> Prop(r, "id"),
   author |-> Prop(r, "author"),
   rating |-> Prop(r, "rating"),
   date |-> Prop(r, "date"),
   text |-> Prop(r, "text"),
   hasPhoto |-> Or(Prop(r, "hasPhoto"), Bool(FALSE))]

\* Lines 1195-1198: what makes the try block raise: the file cannot be read
\* or parsed, the parsed value is null, data.reviews is truthy without a map
\* method, or an element of it is null.
LoadReviewsThrows(file) ==
  \/ file.state # "parsed"
  \/ Nullish(file.doc)
  \/ MapThrows(Prop(file.doc, "reviews"))

\* Mutant: the dataset read once, by the first call that needs it, and kept.
LoadReviews_Cached(file) ==
  IF lastCall.op = "getReviewsForPage" /\ lastCall.loaded.read
    THEN lastCall.loaded.reviews
  ELSE IF LoadReviewsThrows(file) THEN << >>
  ELSE LET a == Or(Prop(file.doc, "reviews"), EmptyArr)
       IN [i \in 1..Len(a.v) |-> Review(a.v[i])]

\* Lines 1193-1209: the catch block turns every exception into [].
LoadReviews(file) ==
  IF LoadReviewsThrows(file) THEN << >>
  ELSE LET a == Or(Prop(file.doc, "reviews"), EmptyArr)
       IN [i \in 1..Len(a.v) |-> Review(a.v[i])]

\* Mutant: the last entry with the path.
FindPage_Last(pages, pagePath) ==
  IF \E i \in 1..Len(pages) : pages[i].path = pagePath
    THEN CHOOSE i \in 1..Len(pages) :
           /\ pages[i].path = pagePath
           /\ \A j \in (i + 1)..Len(pages) : pages[j].path # pagePath
    ELSE 0

\* Line 1220, pages.find(p => p.path === pagePath): the index of the first
\* entry whose path is strictly equal to the argument, 0 when there is none.
FindPage(pages, pagePath) ==
  IF \E i \in 1..Len(pages) : pages[i].path = pagePath
    THEN CHOOSE i \in 1..Len(pages) :
           /\ pages[i].path = pagePath
           /\ \A j \in 1..(i - 1) : pages[j].path # pagePath
    ELSE 0

\* The string a key of an object is, for the one-character keys the review
\* ids of the model are.
KeyStr(key) == Str(<<key>>)

\* Line 1229, Object.entries(tagged): the own keys of an object, the indices
\* of an array or of a string, nothing for a number or a boolean.
Entries(x) ==
  CASE x.k = "obj" -> {<<KeyStr(key), x.v[key]>> : key \in DOMAIN x.v}
    [] x.k = "arr" -> {<<Str(NatToStr(i - 1)), x.v[i]>> : i \in 1..Len(x.v)}
    [] x.k = "str" ->
         {<<Str(NatToStr(i - 1)), Str(<<x.v[i]>>)>> : i \in 1..Len(x.v)}
    [] OTHER -> {}

\* String.prototype.includes.
IsSubstring(needle, s) ==
  \E i \in 0..(Len(s) - Len(needle)) : SubSeq(s, i + 1, i + Len(needle)) = needle

\* Line 1230, pages.includes(pagePath): an element of an array, a substring
\* of a string; any other value has no includes method.
IncludesThrows(x) == x.k \notin {"arr", "str"}

Includes(x, pagePath) ==
  IF x.k = "arr" THEN \E i \in 1..Len(x.v) : x.v[i] = pagePath
  ELSE IsSubstring(pagePath.v, x.v)

\* Lines 1229-1230: the filter over the entries raises a TypeError when the
\* value of an entry has no includes method.
TaggedThrows(tagged) == \E entry \in Entries(tagged) : IncludesThrows(entry[2])

\* Lines 1229-1231.
TaggedReviewIds(tagged, pagePath) ==
  {entry[1] : entry \in {x \in Entries(tagged) : Includes(x[2], pagePath)}}

\* Array.prototype.slice(0, end): end is converted to an integer, NaN to 0,
\* and a negative end counts from the end of the array.
Slice(a, end) ==
  LET n == ToNumber(end)
      upto == IF end = Undefined THEN Len(a)
              ELSE IF n = NaN THEN 0
              ELSE IF n.v < 0 THEN (IF Len(a) + n.v < 0 THEN 0 ELSE Len(a) + n.v)
              ELSE IF n.v > Len(a) THEN Len(a) ELSE n.v
  IN SubSeq(a, 1, upto)

\* What a call gives back to its caller and what it did on the way: whether
\* it searched the page configs (line 1220) and whether it read the dataset
\* (line 1225), with what loadReviews returned.
NoCall == [op |-> "none"]

NotRead == [read |-> FALSE, reviews |-> << >>]

Read(reviews) == [read |-> TRUE, reviews |-> reviews]

ReviewsCall(pagePath, outcome, reviews, config, searched, loaded) ==
  [op |-> "getReviewsForPage", pagePath |-> pagePath, outcome |-> outcome,
   reviews |-> reviews, config |-> config, searched |-> searched,
   loaded |-> loaded]

\* Mutant: the accessor without its short-circuit.
ReviewsDisabled_Never(config) == FALSE

\* Line 1216: !siteConfig.reviews.enabled
ReviewsDisabled(config) == ~Truthy(config.reviews.enabled)

\* Lines 1212-1238.
ReviewsForPage(config, file, pagePath) ==
  LET pages == config.reviews.pages.v
      i == FindPage(pages, pagePath)
      allReviews == LoadReviews(file)
      tagged == config.reviews.tagged
      taggedReviewIds == TaggedReviewIds(tagged, pagePath)
      IsTagged(r) == r.id \in taggedReviewIds
  IN IF ReviewsDisabled(config)
       THEN ReviewsCall(pagePath, "returned", << >>, Null, FALSE, NotRead)
     ELSE IF i = 0
       THEN ReviewsCall(pagePath, "returned", << >>, Null, TRUE, NotRead)
     ELSE IF TaggedThrows(tagged)
       THEN ReviewsCall(pagePath, "threw", << >>, Null, TRUE, Read(allReviews))
     ELSE ReviewsCall(pagePath, "returned",
                      Slice(SelectSeq(allReviews, IsTagged),
                            pages[i].maxReviews),
                      pages[i], TRUE, Read(allReviews))

\* Lines 1247-1253.
FullAddress(config) ==
  LET addr == config.contact.address
      line == ToStr(addr.city) \o LitCommaSpace \o ToStr(addr.state)
                \o <<" ">> \o ToStr(addr.zip)
      suite == IF Truthy(addr.suite) THEN LitCommaSpace \o ToStr(addr.suite)
               ELSE << >>
  IN Str(ToStr(addr.street) \o suite \o LitCommaSpace \o line)

\* Lines 1256-1260.
YearsInBusinessText(config) ==
  LET years == config.trust.yearsInBusiness
  IN IF years.k = "num" /\ years.v < 1 THEN Str(LitNewBusiness)
     ELSE IF years = Num(1) THEN Str(LitOneYear)
     ELSE Str(ToStr(years) \o LitYearsSuffix)

(***************************************************************************)
(* The setup wizard (class SetupWizard, lines 133-693, run at lines         *)
(* 696-701).  Its string literals first.                                    *)
(***************************************************************************)
LitHttps == <<"h", "t", "t", "p", "s", ":", "/", "/">>

LitHttp == <<"h", "t", "t", "p", ":", "/", "/">>

LitHttpPrefix == <<"h", "t", "t", "p">>

LitAcmeUrl ==
  <<"h", "t", "t", "p", "s", ":", "/", "/", "a", "c", "m", "e", ".", "c",
    "o", "m">>

LitAcmeEmail ==
  <<"h", "e", "l", "l", "o", "@", "a", "c", "m", "e", ".", "c", "o", "m">>

LitAcmePhone ==
  <<"(", "5", "5", "5", ")", " ", "5", "5", "5", "-", "0", "1", "0", "0">>

LitAcmePhoneRaw ==
  <<"+", "1", "5", "5", "5", "5", "5", "5", "0", "1", "0", "0">>

LitAcmeStreet ==
  <<"1", "2", "3", " ", "M", "a", "i", "n", " ", "S", "t", "r", "e", "e",
    "t">>

LitPlusOne == <<"+", "1">>

LitMailto == <<"m", "a", "i", "l", "t", "o", ":">>

LitCustomText == <<"C", "u", "s", "t", "o", "m", " ", "t", "e", "x", "t">>

LitCustomColors ==
  <<"C", "u", "s", "t", "o", "m", " ", "c", "o", "l", "o", "r", "s">>

LitPlumbing == <<"p", "l", "u", "m", "b", "i", "n", "g">>

LitHvac == <<"h", "v", "a", "c">>

LitElectrical == <<"e", "l", "e", "c", "t", "r", "i", "c", "a", "l">>

LitLandscaping == <<"l", "a", "n", "d", "s", "c", "a", "p", "i", "n", "g">>

LitConstruction ==
  <<"c", "o", "n", "s", "t", "r", "u", "c", "t", "i", "o", "n">>

LitCleaning == <<"c", "l", "e", "a", "n", "i", "n", "g">>

LitOther == <<"o", "t", "h", "e", "r">>

LitBlue ==
  <<"B", "l", "u", "e", " ", "(", "P", "r", "o", "f", "e", "s", "s", "i",
    "o", "n", "a", "l", ")">>

LitGreen ==
  <<"G", "r", "e", "e", "n", " ", "(", "N", "a", "t", "u", "r", "e", "/",
    "H", "e", "a", "l", "t", "h", ")">>

LitRed ==
  <<"R", "e", "d", " ", "(", "B", "o", "l", "d", "/", "U", "r", "g", "e",
    "n", "t", ")">>

LitPurple ==
  <<"P", "u", "r", "p", "l", "e", " ", "(", "C", "r", "e", "a", "t", "i",
    "v", "e", ")">>

LitOrange ==
  <<"O", "r", "a", "n", "g", "e", " ", "(", "E", "n", "e", "r", "g", "e",
    "t", "i", "c", ")">>

LitFreeQuote ==
  <<"G", "e", "t", " ", "a", " ", "F", "r", "e", "e", " ", "Q", "u", "o",
    "t", "e">>

LitContactUs == <<"C", "o", "n", "t", "a", "c", "t", " ", "U", "s">>

LitSchedule ==
  <<"S", "c", "h", "e", "d", "u", "l", "e", " ", "C", "o", "n", "s", "u",
    "l", "t", "a", "t", "i", "o", "n">>

(***************************************************************************)
(* The prompts.  A line typed at the terminal is a sequence of characters;  *)
(* what a prompt resolves to is a JavaScript value, because the default it  *)
(* falls back to is whatever the wizard's data holds at that moment.        *)
(***************************************************************************)

\* Lines 172-179, the callback of rl.question: answer.trim() || defaultValue.
Prompt(answer, defaultValue) == Or(Str(Trim(answer)), defaultValue)

UpperCase ==
  <<"A", "B", "C", "D", "E", "F", "G", "H", "I", "J", "K", "L", "M", "N",
    "O", "P", "Q", "R", "S", "T", "U", "V", "W", "X", "Y", "Z">>

LowerCase ==
  <<"a", "b", "c", "d", "e", "f", "g", "h", "i", "j", "k", "l", "m", "n",
    "o", "p", "q", "r", "s", "t", "u", "v", "w", "x", "y", "z">>

\* s.toLowerCase()
ToLowerCase(s) ==
  [i \in 1..Len(s) |->
     IF \E j \in 1..26 : UpperCase[j] = s[i]
       THEN LowerCase[CHOOSE j \in 1..26 : UpperCase[j] = s[i]]
       ELSE s[i]]

\* Lines 181-186.
PromptYesNo(answer, defaultYes) ==
  LET a == Prompt(answer, EmptyStr)
  IN IF a = EmptyStr THEN defaultYes
     ELSE StartsWith(ToLowerCase(a.v), <<"y">>)

\* choices[index] of an array of strings: undefined unless index is one of
\* its positions.
Element(choices, index) ==
  IF index.k = "num" /\ index.v \in 0..(Len(choices) - 1)
    THEN choices[index.v + 1]
    ELSE Undefined

\* Lines 188-197.
PromptChoice(choices, defaultIndex, answer) ==
  LET a == Prompt(answer, Str(NatToStr(defaultIndex + 1)))
      index == Minus(ParseInt(ToStr(a)), Num(1))
  IN Or(Element(choices, index), Element(choices, Num(defaultIndex)))

\* Line 323.
industries ==
  <<Str(LitGeneral), Str(LitPlumbing), Str(LitHvac), Str(LitElectrical),
    Str(LitLandscaping), Str(LitConstruction), Str(LitCleaning),
    Str(LitOther)>>

\* Lines 380-387, Object.keys(colorPresets).
colorPresets ==
  <<Str(LitBlue), Str(LitGreen), Str(LitRed), Str(LitPurple),
    Str(LitOrange), Str(LitCustomColors)>>

\* Lines 407-414.
ctaOptions ==
  <<Str(LitGetStarted), Str(LitFreeQuote), Str(LitContactUs),
    Str(LitSchedule), Str(LitCallNow), Str(LitCustomText)>>

\* Line 421.
urlOptions(d) ==
  <<Str(LitContactUrl), Str(LitTel \o ToStr(d.phoneRaw)),
    Str(LitMailto \o ToStr(d.email))>>

(***************************************************************************)
(* The wizard's data (this.data).  The model carries the fields on which    *)
(* the wizard's control flow and the generated site address depend:         *)
(* business.name, site.url, contact.email, contact.phone, contact.phoneRaw  *)
(* and contact.address.street.                                              *)
(***************************************************************************)

\* Lines 84-131.
defaults ==
  [name |-> Str(LitAcmeCorp), url |-> Str(LitAcmeUrl),
   email |-> Str(LitAcmeEmail), phone |-> Str(LitAcmePhone),
   phoneRaw |-> Str(LitAcmePhoneRaw), street |-> Str(LitAcmeStreet)]

\* Lines 253-290: the extracted document mapped to the wizard's format.
Mapped(extracted) ==
  [name |-> Or(Opt2(extracted, "business", "name"), EmptyStr),
   email |-> Or(Opt2(extracted, "contact", "email"), EmptyStr),
   phone |-> Or(Opt2(extracted, "contact", "phone"), EmptyStr),
   phoneRaw |-> Or(Opt2(extracted, "contact", "phone_raw"), EmptyStr),
   street |-> Or(Opt3(extracted, "contact", "address", "street"), EmptyStr)]

\* Lines 243-300, the body of the try block: execSync raises on a time-out
\* and on a non-zero exit, JSON.parse on content that is not JSON, and
\* extracted.business on null.
TryRaises(env) ==
  \/ env.exec # "ok"
  \/ env.output.state = "unparsable"
  \/ env.output.state = "parsed" /\ Nullish(env.output.doc)

\* Mutant: the try block without its catch.
ExtractFromWebsite_NoCatch(env) ==
  IF ~env.tool THEN [k |-> "return", value |-> Null]
  ELSE IF TryRaises(env) THEN [k |-> "throw"]
  ELSE IF env.output.state = "missing" THEN [k |-> "return", value |-> Null]
  ELSE [k |-> "return",
        value |-> [k |-> "mapped", v |-> Mapped(env.output.doc)]]

\* Lines 214-307: what extractFromWebsite gives its caller.  env is what the
\* call finds: whether csp.py is installed, how the crawl ended, and the
\* output file the crawl left.
ExtractFromWebsite(env) ==
  IF ~env.tool THEN [k |-> "return", value |-> Null]
  ELSE IF TryRaises(env) THEN [k |-> "return", value |-> Null]
  ELSE IF env.output.state = "missing" THEN [k |-> "return", value |-> Null]
  ELSE [k |-> "return",
        value |-> [k |-> "mapped", v |-> Mapped(env.output.doc)]]

\* Lines 238-251 and 302-306: whether .extracted_data.json exists when
\* extractFromWebsite is left.  fs.unlinkSync runs only after JSON.parse has
\* returned.
TempFileLeft(env) ==
  /\ env.tool
  /\ env.output.state # "missing"
  /\ \/ env.exec # "ok"
     \/ env.output.state = "unparsable"

\* Lines 646-657: the extracted data merged over the defaults.
Merge(d, extracted) ==
  [d EXCEPT !.name = extracted.name, !.email = extracted.email,
            !.phone = extracted.phone, !.phoneRaw = extracted.phoneRaw,
            !.street = extracted.street]

\* Line 333: this.data.site.url without its scheme, the default of the
\* domain prompt; line 513 computes the sender's domain the same way.
WithoutScheme(url) == RemoveFirst(RemoveFirst(url, LitHttps), LitHttp)

\* Lines 332-338: the site address collectSiteInfo stores.
SiteUrl(answer, url) ==
  LET domain == Prompt(answer, Str(WithoutScheme(ToStr(url))))
  IN IF StartsWith(ToStr(domain), LitHttpPrefix)
       THEN domain
       ELSE Str(LitHttps \o ToStr(domain))

\* typeof x === 'object' for a value a property can be assigned on.
IsObjectLike(x) == x.k \in {"obj", "arr"}

\* The sections of the template generateConfig assigns into (lines 487,
\* 511-518).
TemplateSections == {"branding", "contact_form", "email", "seo", "legal"}

\* Lines 431-438: the template is config.example.yaml when it exists,
\* config.yaml otherwise.
Template(env) ==
  IF env.example.state # "missing" THEN env.example ELSE env.config

\* Mutant: only the missing template raises.
GenerateConfigThrows_NoTemplate(env) == Template(env).state = "missing"

\* Lines 426-519: generateConfig raises before it writes when there is no
\* template, when the template is not YAML, when it is not a mapping, and
\* when it lacks one of the sections assigned into.
GenerateConfigThrows(env) ==
  LET t == Template(env)
  IN \/ t.state # "parsed"
     \/ ~IsObjectLike(t.doc)
     \/ \E section \in TemplateSections :
          ~IsObjectLike(Prop(t.doc, section))

\* rl.question (line 175): the question joins those readline holds.
Ask(queue, question) == Append(queue, question)

\* Mutant: the answered question kept among the outstanding ones.
Resolve_Keep(queue) == queue

\* The callback of rl.question (lines 175-177) is called with the line read,
\* and readline drops the question.
Resolve(queue) == Tail(queue)

NoAnswer == [prompt |-> "none"]

NoCrawl == [requested |-> FALSE]

NoTemplate == [state |-> "not read", doc |-> Undefined]

\* Lines 138-145, the constructor: the data is a copy of the defaults and
\* nothing has been asked, crawled or written.
WizardConstructed ==
  /\ wizard = [status |-> "constructed"]
  /\ outstanding = << >>
  /\ lastAnswer = NoAnswer
  /\ data = defaults
  /\ steps = << >>
  /\ crawl = NoCrawl
  /\ tempFile = FALSE
  /\ template = NoTemplate
  /\ writes = << >>

Init ==
  /\ \E in \in Inputs :
       /\ configFile = in.file
       /\ currentYear = in.year
  /\ proc = "start"
  /\ siteConfig = NotLoaded
  /\ reviewsFile = MissingFile
  /\ lastCall = NoCall
  /\ prevCall = NoCall
  /\ WizardConstructed

\* Lines 960-962 raise when the file cannot be read or parsed; the rest of
\* loadConfig raises as LoadConfigThrows says.
LoadFails ==
  \/ configFile.state # "parsed"
  \/ LoadConfigThrows(configFile.doc)

\* Mutant: the configuration resolved again whenever the module is
\* evaluated, not only by the first load.
ModuleLoad_Reload ==
  /\ proc \in {"start", "running"}
  /\ IF LoadFails
       THEN /\ proc' = "aborted"
            /\ siteConfig' = siteConfig
       ELSE /\ proc' = "running"
            /\ siteConfig' = LoadConfig(configFile.doc, currentYear)
  /\ UNCHANGED <<configFile, currentYear, reviewsFile, lastCall, prevCall>>
  /\ UNCHANGED wizardVars

\* Line 1244, export const siteConfig = loadConfig(): evaluated once, when
\* the module is loaded.  An exception leaves the module unloaded and the
\* constant unassigned.
ModuleLoad ==
  /\ proc = "start"
  /\ IF LoadFails
       THEN /\ proc' = "aborted"
            /\ siteConfig' = siteConfig
       ELSE /\ proc' = "running"
            /\ siteConfig' = LoadConfig(configFile.doc, currentYear)
  /\ UNCHANGED <<configFile, currentYear, reviewsFile, lastCall, prevCall>>
  /\ UNCHANGED wizardVars

Next == ModuleLoad

Spec == Init /\ [][Next]_vars

(***************************************************************************)
(* The process with its callers and its files: once the module is loaded   *)
(* the exported functions are called in any order, and config.yaml and     *)
(* data/reviews.json are rewritten on disk at any moment.                  *)
(***************************************************************************)
AccessInit ==
  /\ \E in \in ReviewInputs :
       /\ configFile = in.file
       /\ currentYear = in.year
       /\ reviewsFile = in.reviews
  /\ proc = "start"
  /\ siteConfig = NotLoaded
  /\ lastCall = NoCall
  /\ prevCall = NoCall
  /\ WizardConstructed

\* Lines 1212-1238, called by a page of the loaded site.
GetReviewsForPage(pagePath) ==
  /\ proc = "running"
  /\ lastCall' = ReviewsForPage(siteConfig, reviewsFile, pagePath)
  /\ prevCall' = lastCall
  /\ UNCHANGED <<configFile, currentYear, proc, siteConfig, reviewsFile>>
  /\ UNCHANGED wizardVars

\* Lines 1247-1253.
GetFullAddress ==
  /\ proc = "running"
  /\ lastCall' = [op |-> "getFullAddress", text |-> FullAddress(siteConfig)]
  /\ prevCall' = lastCall
  /\ UNCHANGED <<configFile, currentYear, proc, siteConfig, reviewsFile>>
  /\ UNCHANGED wizardVars

\* Lines 1256-1260.
GetYearsInBusinessText ==
  /\ proc = "running"
  /\ lastCall' = [op |-> "getYearsInBusinessText",
                  text |-> YearsInBusinessText(siteConfig)]
  /\ prevCall' = lastCall
  /\ UNCHANGED <<configFile, currentYear, proc, siteConfig, reviewsFile>>
  /\ UNCHANGED wizardVars

\* data/reviews.json is replaced on disk.
WriteReviewsFile(file) ==
  /\ file # reviewsFile
  /\ reviewsFile' = file
  /\ UNCHANGED <<configFile, currentYear, proc, siteConfig, lastCall, prevCall>>
  /\ UNCHANGED wizardVars

\* config.yaml is replaced on disk.
WriteConfigFile ==
  /\ configFile # RewrittenConfig
  /\ configFile' = RewrittenConfig
  /\ UNCHANGED <<currentYear, proc, siteConfig, reviewsFile, lastCall, prevCall>>
  /\ UNCHANGED wizardVars

AccessNext ==
  \/ ModuleLoad
  \/ \E pagePath \in {PathHome, PathContact, PathAbout} :
       GetReviewsForPage(pagePath)
  \/ GetFullAddress
  \/ GetYearsInBusinessText
  \/ \E file \in ReviewFiles : WriteReviewsFile(file)
  \/ WriteConfigFile

AccessSpec == AccessInit /\ [][AccessNext]_vars

(***************************************************************************)
(* The setup wizard's process.  Each action is one callback: the line the   *)
(* user typed resolves the outstanding prompt and run continues to the     *)
(* next rl.question, or to the end of the collection.                      *)
(***************************************************************************)

\* The questions, by the text the wizard prints.
QExisting == "Do you have an existing website to import data from?"

QUrl == "Enter the website URL"

BusinessPrompts ==
  <<"Business name", "Legal name", "Tagline/slogan", "Business description",
    "Year founded", "Industry/Category">>

SitePrompts == <<"Domain name">>

ContactPrompts ==
  <<"Email address", "Phone number", "Street address", "Suite/Unit", "City",
    "State", "ZIP code", "Service area">>

SocialPrompts ==
  <<"Facebook URL", "Instagram URL", "LinkedIn URL", "Yelp URL",
    "Google Business URL">>

BrandingPrompts ==
  <<"Choose a color scheme", "Primary color (hex)", "Secondary color (hex)",
    "Accent color (hex)">>

CtaPrompts ==
  <<"Primary CTA button text", "Enter custom CTA text", "CTA destination">>

Range(s) == {s[i] : i \in 1..Len(s)}

\* The question asked after question, in a function that asks them in the
\* order of prompts; last is what follows the function.
After(prompts, question, last) ==
  LET i == CHOOSE i \in 1..Len(prompts) : prompts[i] = question
  IN IF i < Len(prompts) THEN prompts[i + 1] ELSE last

\* The wizard waits for the answer to a question.
Awaiting ==
  /\ wizard.status = "running"
  /\ outstanding # << >>

\* The lines typed at the terminal.
TextAnswers == {<< >>, <<" ">>, <<"X">>}

YesNoAnswers == {<< >>, <<"y">>, <<"Y", "e", "s">>, <<"n">>, <<"o", "k">>}

UrlAnswers == {<< >>, <<" ">>, <<"o", ".", "c", "o">>}

PhoneAnswers == {<< >>, <<"5", "-", "5">>}

NumberAnswers == {<< >>, <<"2">>, <<"6">>, <<"x">>}

SampleDomain == <<"a", ".", "c", "o">>

DomainAnswers ==
  {<< >>, SampleDomain, LitHttps \o SampleDomain, LitHttp \o SampleDomain,
   LitHttpPrefix \o SampleDomain}

Lines ==
  TextAnswers \cup YesNoAnswers \cup UrlAnswers \cup PhoneAnswers
    \cup NumberAnswers \cup DomainAnswers

\* The lines tried at each question.
AnswersTo(question) ==
  CASE question = QExisting -> YesNoAnswers
    [] question = QUrl -> UrlAnswers
    [] question = "Business name" -> TextAnswers
    [] question = "Domain name" -> DomainAnswers
    [] question = "Phone number" -> PhoneAnswers
    [] question \in {"Industry/Category", "Choose a color scheme",
                     "Primary CTA button text", "CTA destination"} ->
         NumberAnswers
    [] OTHER -> {<< >>, <<"X">>}

\* What a crawl can find: csp.py installed or not, execSync returning,
\* timing out or ending with a non-zero exit, and the output file the crawl
\* left (none, one that is not JSON, or a JSON value).
ExtractedDocs ==
  {Null, EmptyObj,
   MkObj([business |-> MkObj([name |-> StrY]),
          contact |-> MkObj([email |-> StrX, phone |-> StrX,
                             phone_raw |-> StrY,
                             address |-> MkObj([street |-> StrY])])]),
   MkObj([business |-> MkObj([name |-> Num(7)]),
          contact |-> MkObj([phone |-> Num(5)])])}

Unparsable == [state |-> "unparsable", doc |-> Undefined]

CrawlEnvs ==
  {[tool |-> FALSE, exec |-> "not run", output |-> MissingFile]}
    \cup {[tool |-> TRUE, exec |-> "timeout", output |-> MissingFile],
          [tool |-> TRUE, exec |-> "exit", output |-> Unparsable]}
    \cup {[tool |-> TRUE, exec |-> "ok", output |-> o] :
            o \in {MissingFile, Unparsable}
                    \cup {[state |-> "parsed", doc |-> d] :
                            d \in ExtractedDocs}}

\* The templates generateConfig can find.
CompleteTemplate ==
  [key \in TemplateSections \cup {"business"} |-> EmptyObj]

TemplateDocs ==
  {Null, StrX, Obj(CompleteTemplate)}
    \cup {MkObj([CompleteTemplate EXCEPT ![section] = Undefined]) :
            section \in TemplateSections}
    \cup {Obj([CompleteTemplate EXCEPT !["seo"] = Null]),
          Obj([CompleteTemplate EXCEPT !["email"] = StrX])}

TemplateFiles ==
  {MissingFile, Unparsable}
    \cup {[state |-> "parsed", doc |-> d] : d \in TemplateDocs}

\* The calls of run that write files (lines 673-677).
GenerateCalls ==
  <<"generateConfig", "generateLogo", "generateFavicon", "generateBlogPost",
    "updateAstroConfig">>

\* What the generation finds on disk: the two templates, whether
\* astro.config.mjs exists, and the call whose fs.mkdirSync or
\* fs.writeFileSync the file system refuses, if any.
GoodTemplate == [state |-> "parsed", doc |-> Obj(CompleteTemplate)]

GenerateEnvs ==
  {[example |-> x, config |-> MissingFile, astro |-> TRUE,
    refused |-> "none"] : x \in TemplateFiles}
    \cup {[example |-> MissingFile, config |-> GoodTemplate, astro |-> a,
           refused |-> r] :
            a \in BOOLEAN, r \in {"none"} \cup Range(GenerateCalls)}

\* Lines 634-638: the banner, then the first question.
Run ==
  /\ wizard.status = "constructed"
  /\ wizard' = [status |-> "running"]
  /\ outstanding' = Ask(outstanding, QExisting)
  /\ UNCHANGED <<lastAnswer, data, steps, crawl, tempFile, template, writes>>
  /\ UNCHANGED siteVars

\* Lines 638-640 and 663: the answer to promptYesNo; the URL is asked for
\* only after a yes, otherwise collectBusinessInfo starts.
AnswerHasExistingSite(line) ==
  /\ Awaiting
  /\ Head(outstanding) = QExisting
  /\ line \in AnswersTo(QExisting)
  /\ LET hasExistingSite == PromptYesNo(line, FALSE)
     IN outstanding' =
          Ask(Resolve(outstanding),
              IF hasExistingSite THEN QUrl ELSE BusinessPrompts[1])
  /\ lastAnswer' = [prompt |-> QExisting, line |-> line]
  /\ UNCHANGED <<wizard, data, steps, crawl, tempFile, template, writes>>
  /\ UNCHANGED siteVars

\* Lines 640-663: the answer to the URL prompt, the crawl when a URL was
\* given, the merge when the crawl returned data, then the first question
\* of collectBusinessInfo.
AnswerExistingUrl(line, env) ==
  /\ Awaiting
  /\ Head(outstanding) = QUrl
  /\ line \in AnswersTo(QUrl)
  /\ lastAnswer' = [prompt |-> QUrl, line |-> line]
  /\ LET existingUrl == Prompt(line, EmptyStr)
         result == ExtractFromWebsite(env)
     IN IF ~Truthy(existingUrl)
          THEN /\ outstanding' = Ask(Resolve(outstanding), BusinessPrompts[1])
               /\ UNCHANGED <<wizard, data, steps, crawl, tempFile>>
          ELSE /\ crawl' = [requested |-> TRUE, env |-> env,
                            result |-> result]
               /\ tempFile' = TempFileLeft(env)
               /\ IF result.k = "throw"
                    THEN /\ wizard' = [status |-> "failed",
                                       threw |-> "extractFromWebsite"]
                         /\ outstanding' = Resolve(outstanding)
                         /\ UNCHANGED <<data, steps>>
                    ELSE /\ steps' = Append(steps, "extractFromWebsite")
                         /\ data' = IF Truthy(result.value)
                                      THEN Merge(data, result.value.v)
                                      ELSE data
                         /\ outstanding' =
                              Ask(Resolve(outstanding), BusinessPrompts[1])
                         /\ UNCHANGED wizard
  /\ UNCHANGED <<template, writes>>
  /\ UNCHANGED siteVars

\* Lines 310-326 and 664.
CollectBusinessInfo(line) ==
  /\ Awaiting
  /\ Head(outstanding) \in Range(BusinessPrompts)
  /\ line \in AnswersTo(Head(outstanding))
  /\ LET question == Head(outstanding)
         last == question = BusinessPrompts[Len(BusinessPrompts)]
     IN /\ data' = IF question = "Business name"
                     THEN [data EXCEPT !.name = Prompt(line, data.name)]
                     ELSE data
        /\ steps' = IF last THEN Append(steps, "collectBusinessInfo")
                    ELSE steps
        /\ outstanding' =
             Ask(Resolve(outstanding),
                 After(BusinessPrompts, question, SitePrompts[1]))
        /\ lastAnswer' = [prompt |-> question, line |-> line]
  /\ UNCHANGED <<wizard, crawl, tempFile, template, writes>>
  /\ UNCHANGED siteVars

\* Lines 329-339 and 665.
CollectSiteInfo(line) ==
  /\ Awaiting
  /\ Head(outstanding) \in Range(SitePrompts)
  /\ line \in AnswersTo(Head(outstanding))
  /\ data' = [data EXCEPT !.url = SiteUrl(line, data.url)]
  /\ steps' = Append(steps, "collectSiteInfo")
  /\ outstanding' = Ask(Resolve(outstanding), ContactPrompts[1])
  /\ lastAnswer' = [prompt |-> Head(outstanding), line |-> line]
  /\ UNCHANGED <<wizard, crawl, tempFile, template, writes>>
  /\ UNCHANGED siteVars

\* Lines 342-362 and 666.  phone.replace (line 349) raises when the phone
\* kept from the crawl is not a string; the four questions after the street
\* are asked only when a street was given.
CollectContactInfo(line) ==
  /\ Awaiting
  /\ Head(outstanding) \in Range(ContactPrompts)
  /\ line \in AnswersTo(Head(outstanding))
  /\ LET question == Head(outstanding)
         phone == Prompt(line, data.phone)
         street == Prompt(line, data.street)
         raises == question = "Phone number" /\ phone.k # "str"
         next == IF question = "Street address" /\ ~Truthy(street)
                   THEN "Service area"
                   ELSE After(ContactPrompts, question, SocialPrompts[1])
     IN /\ data' =
             CASE question = "Email address" ->
                    [data EXCEPT !.email = Prompt(line, data.email)]
               [] question = "Phone number" /\ ~raises ->
                    [data EXCEPT
                       !.phone = phone,
                       !.phoneRaw = Str(LitPlusOne \o StripNonDigits(phone.v))]
               [] question = "Phone number" /\ raises ->
                    [data EXCEPT !.phone = phone]
               [] question = "Street address" ->
                    [data EXCEPT !.street = street]
               [] OTHER -> data
        /\ steps' = IF question = "Service area"
                      THEN Append(steps, "collectContactInfo")
                      ELSE steps
        /\ IF raises
             THEN /\ wizard' = [status |-> "failed",
                                threw |-> "collectContactInfo"]
                  /\ outstanding' = Resolve(outstanding)
             ELSE /\ outstanding' = Ask(Resolve(outstanding), next)
                  /\ UNCHANGED wizard
        /\ lastAnswer' = [prompt |-> question, line |-> line]
  /\ UNCHANGED <<crawl, tempFile, template, writes>>
  /\ UNCHANGED siteVars

\* Lines 365-374 and 667.
CollectSocialMedia(line) ==
  /\ Awaiting
  /\ Head(outstanding) \in Range(SocialPrompts)
  /\ line \in AnswersTo(Head(outstanding))
  /\ LET question == Head(outstanding)
     IN /\ steps' = IF question = SocialPrompts[Len(SocialPrompts)]
                      THEN Append(steps, "collectSocialMedia")
                      ELSE steps
        /\ outstanding' =
             Ask(Resolve(outstanding),
                 After(SocialPrompts, question, BrandingPrompts[1]))
        /\ lastAnswer' = [prompt |-> question, line |-> line]
  /\ UNCHANGED <<wizard, data, crawl, tempFile, template, writes>>
  /\ UNCHANGED siteVars

\* Lines 377-401 and 668: the three colour questions are asked only for the
\* preset without colours, 'Custom colors'.
CollectBranding(line) ==
  /\ Awaiting
  /\ Head(outstanding) \in Range(BrandingPrompts)
  /\ line \in AnswersTo(Head(outstanding))
  /\ LET question == Head(outstanding)
         choice == PromptChoice(colorPresets, 0, line)
         last == IF question = "Choose a color scheme"
                   THEN choice # Str(LitCustomColors)
                   ELSE question = BrandingPrompts[Len(BrandingPrompts)]
     IN /\ steps' = IF last THEN Append(steps, "collectBranding") ELSE steps
        /\ outstanding' =
             Ask(Resolve(outstanding),
                 IF last THEN CtaPrompts[1]
                 ELSE After(BrandingPrompts, question, CtaPrompts[1]))
        /\ lastAnswer' = [prompt |-> question, line |-> line]
  /\ UNCHANGED <<wizard, data, crawl, tempFile, template, writes>>
  /\ UNCHANGED siteVars

\* Lines 404-423 and 668-670: the custom text is asked for only after the
\* choice 'Custom text'; the answer to the last question ends the
\* collection.
CollectCTA(line) ==
  /\ Awaiting
  /\ Head(outstanding) \in Range(CtaPrompts)
  /\ line \in AnswersTo(Head(outstanding))
  /\ LET question == Head(outstanding)
         choice == PromptChoice(ctaOptions, 0, line)
         last == question = "CTA destination"
     IN /\ steps' = IF last THEN Append(steps, "collectCTA") ELSE steps
        /\ outstanding' =
             IF last THEN Resolve(outstanding)
             ELSE Ask(Resolve(outstanding),
                      IF question = "Primary CTA button text"
                           /\ choice # Str(LitCustomText)
                        THEN "CTA destination"
                        ELSE After(CtaPrompts, question, "none"))
        /\ wizard' = IF last THEN [status |-> "generating"] ELSE wizard
        /\ lastAnswer' = [prompt |-> question, line |-> line]
  /\ UNCHANGED <<data, crawl, tempFile, template, writes>>
  /\ UNCHANGED siteVars

\* Line 513: the domain of the sender's address written to config.yaml.
FromEmailDomain(url) == WithoutScheme(ToStr(url))

\* What a call of lines 673-677 writes: config.yaml with the site address
\* and the sender's domain (lines 450-455, 513, 521-522), the logo (line
\* 535), the favicon (line 551), the blog post, and astro.config.mjs when it
\* exists (lines 622-628).
Written(call, d, env) ==
  CASE call = "generateConfig" ->
         <<[file |-> "config.yaml", url |-> d.url,
            fromEmailDomain |-> FromEmailDomain(d.url)]>>
    [] call = "generateLogo" -> <<[file |-> "public/images/logo.svg"]>>
    [] call = "generateFavicon" -> <<[file |-> "public/favicon.svg"]>>
    [] call = "generateBlogPost" ->
         <<[file |-> "src/content/blog/welcome-to-our-website.md"]>>
    [] call = "updateAstroConfig" ->
         IF env.astro THEN <<[file |-> "astro.config.mjs", url |-> d.url]>>
         ELSE << >>

\* Whether a call of lines 673-677 raises, which it does before it writes:
\* generateConfig as GenerateConfigThrows says, generateFavicon on a name
\* without charAt (line 544), and each call when the file system refuses
\* its write.
Raises(call, d, env) ==
  CASE call = "generateConfig" ->
         GenerateConfigThrows(env) \/ env.refused = call
    [] call = "generateFavicon" -> env.refused = call \/ d.name.k # "str"
    [] call = "updateAstroConfig" -> env.refused = call /\ env.astro
    [] OTHER -> env.refused = call

\* The calls of lines 673-677 that return: those before the first that
\* raises.
Returned(d, env) ==
  LET n == Len(GenerateCalls)
      first == IF \E i \in 1..n : Raises(GenerateCalls[i], d, env)
                 THEN CHOOSE i \in 1..n :
                        /\ Raises(GenerateCalls[i], d, env)
                        /\ \A j \in 1..(i - 1) :
                             ~Raises(GenerateCalls[j], d, env)
                 ELSE n + 1
  IN SubSeq(GenerateCalls, 1, first - 1)

RECURSIVE WrittenBy(_, _, _)
WrittenBy(calls, d, env) ==
  IF calls = << >> THEN << >>
  ELSE Written(Head(calls), d, env) \o WrittenBy(Tail(calls), d, env)

\* Lines 670-692 and 698-701: the files are generated in order; when every
\* call returns the wizard prints "Setup Complete!" and closes readline,
\* and when one raises run is rejected and the process exits with status 1.
GenerateFiles(env) ==
  /\ wizard.status = "generating"
  /\ LET returned == Returned(data, env)
     IN /\ writes' = WrittenBy(returned, data, env)
        /\ steps' = steps \o returned
        /\ wizard' = IF Len(returned) = Len(GenerateCalls)
                       THEN [status |-> "complete"]
                       ELSE [status |-> "failed",
                             threw |-> GenerateCalls[Len(returned) + 1]]
  /\ template' = Template(env)
  /\ UNCHANGED <<outstanding, lastAnswer, data, crawl, tempFile>>
  /\ UNCHANGED siteVars

\* The wizard starts in a project where nothing of the site runs.
WizardInit ==
  /\ configFile = MissingFile
  /\ currentYear = BaseYear
  /\ proc = "start"
  /\ siteConfig = NotLoaded
  /\ reviewsFile = MissingFile
  /\ lastCall = NoCall
  /\ prevCall = NoCall
  /\ WizardConstructed

WizardNext ==
  \/ Run
  \/ \E line \in Lines : AnswerHasExistingSite(line)
  \/ \E line \in Lines, env \in CrawlEnvs : AnswerExistingUrl(line, env)
  \/ \E line \in Lines : CollectBusinessInfo(line)
  \/ \E line \in Lines : CollectSiteInfo(line)
  \/ \E line \in Lines : CollectContactInfo(line)
  \/ \E line \in Lines : CollectSocialMedia(line)
  \/ \E line \in Lines : CollectBranding(line)
  \/ \E line \in Lines : CollectCTA(line)
  \/ \E env \in GenerateEnvs : GenerateFiles(env)

WizardSpec == WizardInit /\ [][WizardNext]_vars

(***************************************************************************)
(* promptChoice on its own: called with each list of choices the wizard     *)
(* shows, each default position of the list, and every line of at most      *)
(* MaxAnswerLen characters; lastAnswer holds the call and what it resolved  *)
(* to.                                                                      *)
(***************************************************************************)
ChoiceChars == {"0", "1", "2", "9", "-", "+", "x", " "}

ChoiceAnswers ==
  UNION {[1..n -> ChoiceChars] : n \in 0..MaxAnswerLen}

ChoiceLists == {industries, colorPresets, ctaOptions, urlOptions(defaults)}

\* A call of promptChoice whose question is outstanding, with the line the
\* user types.
ChoiceInit ==
  /\ configFile = MissingFile
  /\ currentYear = BaseYear
  /\ proc = "start"
  /\ siteConfig = NotLoaded
  /\ reviewsFile = MissingFile
  /\ lastCall = NoCall
  /\ prevCall = NoCall
  /\ wizard = [status |-> "running"]
  /\ outstanding = <<"Enter number">>
  /\ \E choices \in ChoiceLists :
       \E defaultIndex \in 0..(Len(choices) - 1), line \in ChoiceAnswers :
         lastAnswer = [prompt |-> "Enter number", choices |-> choices,
                       defaultIndex |-> defaultIndex, line |-> line,
                       value |-> Undefined]
  /\ data = defaults
  /\ steps = << >>
  /\ crawl = NoCrawl
  /\ tempFile = FALSE
  /\ template = NoTemplate
  /\ writes = << >>

\* Lines 188-197: the line resolves the prompt and promptChoice returns.
PromptChoiceCall ==
  /\ Awaiting
  /\ Head(outstanding) = "Enter number"
  /\ outstanding' = Resolve(outstanding)
  /\ lastAnswer' =
       [lastAnswer EXCEPT
          !.value = PromptChoice(lastAnswer.choices, lastAnswer.defaultIndex,
                                 lastAnswer.line)]
  /\ UNCHANGED <<wizard, data, steps, crawl, tempFile, template, writes>>
  /\ UNCHANGED siteVars

ChoiceNext == PromptChoiceCall

ChoiceSpec == ChoiceInit /\ [][ChoiceNext]_vars

(***************************************************************************)
(* Properties of the loader.                                               *)
(***************************************************************************)
doc == configFile.doc

\* A key of the document is populated when it holds a value other than
\* null, the empty string, 0 and false.
Populated(x) ==
  /\ x.k \notin {"undefined", "null"}
  /\ x # EmptyStr
  /\ x # Num(0)
  /\ x # Bool(FALSE)

\* The first populated value of a sequence of candidates, else the default.
RECURSIVE FirstPopulated(_, _)
FirstPopulated(candidates, default) ==
  IF candidates = << >> THEN default
  ELSE IF Populated(Head(candidates)) THEN Head(candidates)
  ELSE FirstPopulated(Tail(candidates), default)

\* The value at a path of keys of the document, undefined when the path
\* leaves the document.
RECURSIVE At(_, _)
At(x, path) ==
  IF path = << >> THEN x
  ELSE IF x.k = "obj" /\ Head(path) \in DOMAIN x.v
         THEN At(x.v[Head(path)], Tail(path))
         ELSE Undefined

\* A decimal digit, the complement of the class \D.
DecimalDigit(c) ==
  c \in {"0", "1", "2", "3", "4", "5", "6", "7", "8", "9"}

\* No field of a resolved value is null or absent, at any depth.
RECURSIVE AllPresent(_)
AllPresent(x) ==
  IF "k" \in DOMAIN x
    THEN /\ ~Nullish(x)
         /\ x.k = "arr" => \A i \in 1..Len(x.v) : AllPresent(x.v[i])
         /\ x.k = "obj" => \A key \in DOMAIN x.v : AllPresent(x.v[key])
    ELSE \A f \in DOMAIN x : AllPresent(x[f])

\* C1: for every document that parses to a mapping (the empty object
\* included, whatever its fields hold), loadConfig returns without throwing
\* and no field of the returned object is null or absent.
C1_LoadConfigTotal ==
  (configFile.state = "parsed" /\ doc.k = "obj" /\ proc # "start")
    => (proc = "running" /\ AllPresent(siteConfig))

\* C2: loadConfig fails only when config.yaml cannot be read or cannot be
\* parsed (a document that is no mapping counted as unparsable), and then no
\* siteConfig is published.
C2_FailsOnlyOnReadOrParse ==
  proc = "aborted" =>
    /\ configFile.state # "parsed" \/ doc.k # "obj"
    /\ siteConfig = NotLoaded

\* C3: the resolved business name is business.name when populated, else
\* site.name when populated, else "Acme Corp"; it is never empty, and the
\* top-level name equals business.name of the output.
C3_BusinessNameChain ==
  proc = "running" =>
    /\ siteConfig.business.name =
         FirstPopulated(<<At(doc, <<"business", "name">>),
                          At(doc, <<"site", "name">>)>>,
                        Str(<<"A", "c", "m", "e", " ", "C", "o", "r", "p">>))
    /\ siteConfig.name = siteConfig.business.name
    /\ Populated(siteConfig.name)

C3_Witness ==
  /\ proc = "running"
  /\ At(doc, <<"site", "name">>) = StrY
  /\ At(doc, <<"business", "name">>) = EmptyStr
  /\ siteConfig.name = StrY

\* C4: the resolved display phone is contact.phone when populated, else
\* contact.phone_local when populated, else the empty string; and
\* contact.phoneLocal of the output equals contact.phone of the output.
C4_PhoneDisplayChain ==
  proc = "running" =>
    /\ siteConfig.contact.phone =
         FirstPopulated(<<At(doc, <<"contact", "phone">>),
                          At(doc, <<"contact", "phone_local">>)>>, EmptyStr)
    /\ siteConfig.contact.phoneLocal = siteConfig.contact.phone

C4_Witness ==
  /\ proc = "running"
  /\ At(doc, <<"contact", "phone">>) = EmptyStr
  /\ Populated(At(doc, <<"contact", "phone_local">>))
  /\ siteConfig.contact.phone = At(doc, <<"contact", "phone_local">>)
  /\ siteConfig.contact.phoneLocal = At(doc, <<"contact", "phone_local">>)

\* C5: for a document that holds only the contact and cta sections, the
\* resolved contact.phoneRaw is contact.phone_raw when that is populated,
\* else the display phone with every non-digit character removed; loadConfig
\* returns it, it is never an error.
C5_PhoneRawDerived ==
  (/\ configFile.state = "parsed"
   /\ proc # "start"
   /\ doc.k = "obj"
   /\ DOMAIN doc.v \subseteq {"contact", "cta"})
    => /\ proc = "running"
       /\ siteConfig.contact.phoneRaw =
            FirstPopulated(
              <<At(doc, <<"contact", "phone_raw">>)>>,
              Str(SelectSeq(
                    ToStr(FirstPopulated(
                            <<At(doc, <<"contact", "phone">>),
                              At(doc, <<"contact", "phone_local">>)>>,
                            EmptyStr)),
                    DecimalDigit)))

\* C6: when hours.detailed is present and non-empty, each of the seven
\* resolved weekday strings is the one hours.detailed gives, and the empty
\* string for a weekday hours.detailed does not give, whatever the flat
\* hours object holds for that weekday.
C6_DetailedExclusive ==
  proc = "running" =>
    LET detailed == At(doc, <<"hours", "detailed">>)
    IN (Populated(detailed) /\ detailed # EmptyObj) =>
         \A day \in Days :
           siteConfig.hours[day] =
             FirstPopulated(<<At(detailed, <<day>>)>>, EmptyStr)

C6_Witness ==
  /\ proc = "running"
  /\ \E set, unset \in Days :
       /\ set # unset
       /\ At(doc, <<"hours", "detailed", set>>) \in WeekdayVals
       /\ At(doc, <<"hours", "detailed", unset>>) = Undefined
       /\ At(doc, <<"hours", unset>>) \in WeekdayVals
       /\ siteConfig.hours[set] = At(doc, <<"hours", "detailed", set>>)
       /\ siteConfig.hours[unset] = EmptyStr

\* C7: when hours.detailed is absent, or present but an object with no
\* weekday entries, each of the seven resolved weekday strings is the one
\* the flat hours object gives, and the empty string when it gives none.
C7_FlatWhenDetailedAbsentOrEmpty ==
  proc = "running" =>
    LET hours == At(doc, <<"hours">>)
        detailed == At(doc, <<"hours", "detailed">>)
    IN (hours.k = "obj" /\ (Nullish(detailed) \/ detailed = EmptyObj)) =>
         \A day \in Days :
           siteConfig.hours[day] =
             FirstPopulated(<<At(hours, <<day>>)>>, EmptyStr)

\* C8: trust.yearsInBusiness of the output is currentYear minus
\* business.yearFounded of the same output, whatever years_in_business key
\* the document carries; with business.year_founded absent, yearFounded is
\* the current year and yearsInBusiness is 0.
C8_YearsInBusinessDerived ==
  proc = "running" =>
    LET yearFounded == siteConfig.business.yearFounded
        yearsInBusiness == siteConfig.trust.yearsInBusiness
    IN /\ yearFounded.k = "num" =>
            yearsInBusiness = Num(currentYear - yearFounded.v)
       /\ (yearFounded.k = "str"
             /\ \A i \in 1..Len(yearFounded.v) : DecimalDigit(yearFounded.v[i]))
            => yearsInBusiness = Num(currentYear - DecimalValue(yearFounded.v))
       /\ Nullish(At(doc, <<"business", "year_founded">>)) =>
            /\ yearFounded = Num(currentYear)
            /\ yearsInBusiness = Num(0)

C8_Witness ==
  /\ proc = "running"
  /\ At(doc, <<"trust", "years_in_business">>) = Num(99)
  /\ At(doc, <<"business", "year_founded">>) = Num(currentYear - 2)
  /\ siteConfig.business.yearFounded = Num(currentYear - 2)
  /\ siteConfig.trust.yearsInBusiness = Num(2)

\* C9: the resolved copyright string is the copyright sign, a space, the
\* current year, a space, the resolved legal.copyrightHolder and
\* ". All rights reserved."; the holder is legal.copyright_holder when
\* populated, else the resolved business name; a copyright key of the
\* document has no influence.
C9_CopyrightSynthesized ==
  proc = "running" =>
    /\ siteConfig.legal.copyrightHolder =
         FirstPopulated(<<At(doc, <<"legal", "copyright_holder">>)>>,
                        siteConfig.business.name)
    /\ siteConfig.copyright =
         Str(<<"©", " ">> \o IntToStr(currentYear) \o <<" ">>
             \o ToStr(siteConfig.legal.copyrightHolder)
             \o <<".", " ", "A", "l", "l", " ", "r", "i", "g", "h", "t", "s",
                  " ", "r", "e", "s", "e", "r", "v", "e", "d", ".">>)
    /\ DecimalValue(SubSeq(siteConfig.copyright.v, 3, 6)) = currentYear

C9_Witness ==
  /\ proc = "running"
  /\ At(doc, <<"copyright">>) = StrY
  /\ At(doc, <<"legal", "copyright_holder">>) = EmptyStr
  /\ At(doc, <<"business", "name">>) = StrX
  /\ siteConfig.copyright =
       Str(<<"©", " ">> \o IntToStr(currentYear)
           \o <<" ", "X", ".", " ", "A", "l", "l", " ", "r", "i", "g", "h",
                "t", "s", " ", "r", "e", "s", "e", "r", "v", "e", "d", ".">>)

\* C10: when the document lacks services.items, value_props.items,
\* trust.certifications or seo.keywords (absent or null), the corresponding
\* resolved field is the empty sequence, never null or absent.
C10_AbsentSequencesEmpty ==
  proc = "running" =>
    /\ Nullish(At(doc, <<"services", "items">>)) =>
         siteConfig.services.items = Arr(<< >>)
    /\ Nullish(At(doc, <<"value_props", "items">>)) =>
         siteConfig.valueProps.items = Arr(<< >>)
    /\ Nullish(At(doc, <<"trust", "certifications">>)) =>
         siteConfig.trust.certifications = Arr(<< >>)
    /\ Nullish(At(doc, <<"seo", "keywords">>)) =>
         siteConfig.seo.keywords = Arr(<< >>)

C10_Witness ==
  /\ proc = "running"
  /\ At(doc, <<"services", "items">>) = Null
  /\ At(doc, <<"services", "headline">>) = StrX
  /\ At(doc, <<"value_props", "items">>) = Undefined
  /\ At(doc, <<"trust", "certifications">>) = Undefined
  /\ At(doc, <<"seo", "keywords">>) = Undefined
  /\ siteConfig.services.items = Arr(<< >>)
  /\ siteConfig.valueProps.items = Arr(<< >>)
  /\ siteConfig.trust.certifications = Arr(<< >>)
  /\ siteConfig.seo.keywords = Arr(<< >>)

\* The per-field defaulting of one services item and of one value-prop item.
DefaultedService(item) ==
  [name |-> FirstPopulated(<<At(item, <<"name">>)>>, EmptyStr),
   description |-> FirstPopulated(<<At(item, <<"description">>)>>, EmptyStr),
   icon |-> FirstPopulated(<<At(item, <<"icon">>)>>, Str(<<"s", "t", "a", "r">>)),
   url |-> FirstPopulated(<<At(item, <<"url">>)>>, EmptyStr)]

DefaultedValueProp(item) ==
  [title |-> FirstPopulated(<<At(item, <<"title">>)>>, EmptyStr),
   description |-> FirstPopulated(<<At(item, <<"description">>)>>, EmptyStr),
   icon |->
     FirstPopulated(<<At(item, <<"icon">>)>>, Str(<<"c", "h", "e", "c", "k">>))]

\* A list key of the document that is absent or holds a sequence.
ListOrAbsent(x) == Nullish(x) \/ x.k = "arr"

\* The items of a list key, none when the key is absent.
ItemsOf(x) == IF x.k = "arr" THEN x.v ELSE << >>

\* C11: for a document that holds only the services, value_props, trust and
\* seo sections, with services.items, value_props.items and
\* trust.certifications absent or sequences of items of any shape, loadConfig
\* returns, and the three resolved sequences have the length and order of
\* their inputs: every services item and value-prop item is defaulted field
\* by field (icon "star" or "check", other fields the empty string) and every
\* certification is kept.
C11_EveryItemResolved ==
  LET si == At(doc, <<"services", "items">>)
      vi == At(doc, <<"value_props", "items">>)
      ce == At(doc, <<"trust", "certifications">>)
  IN (/\ configFile.state = "parsed"
      /\ proc # "start"
      /\ doc.k = "obj"
      /\ DOMAIN doc.v \subseteq {"services", "value_props", "trust", "seo"}
      /\ ListOrAbsent(si) /\ ListOrAbsent(vi) /\ ListOrAbsent(ce))
       => /\ proc = "running"
          /\ siteConfig.services.items =
               Arr([i \in 1..Len(ItemsOf(si)) |->
                      DefaultedService(ItemsOf(si)[i])])
          /\ siteConfig.valueProps.items =
               Arr([i \in 1..Len(ItemsOf(vi)) |->
                      DefaultedValueProp(ItemsOf(vi)[i])])
          /\ siteConfig.trust.certifications = Arr(ItemsOf(ce))

\* C12: when the document gives no cta.secondary.url, the resolved
\* cta.secondary.url is "tel:" followed by contact.phoneRaw of the same
\* output, whether that was given, derived from the display phone, or empty.
C12_SecondaryUrlFromPhoneRaw ==
  (proc = "running" /\ Nullish(At(doc, <<"cta", "secondary", "url">>)))
    => siteConfig.cta.secondary.url =
         Str(<<"t", "e", "l", ":">> \o ToStr(siteConfig.contact.phoneRaw))

\* The name of each feature flag in the document and in the resolved
\* configuration, with the value an absent flag resolves to.
FlagTable ==
  {<<"blog", "blog", TRUE>>,
   <<"contact_form", "contactForm", TRUE>>,
   <<"reviews", "reviews", TRUE>>,
   <<"services_section", "servicesSection", TRUE>>,
   <<"newsletter", "newsletter", FALSE>>,
   <<"chat", "chat", FALSE>>,
   <<"booking", "booking", FALSE>>}

\* C17: each of the seven feature flags resolves on its own: a flag the
\* document gives as true or false keeps that value, and an absent (or null)
\* flag resolves to true for blog, contactForm, reviews and servicesSection
\* and to false for newsletter, chat and booking.
C17_FlagsIndependent ==
  proc = "running" =>
    \A row \in FlagTable :
      LET given == At(doc, <<"features", row[1]>>)
          resolved == siteConfig.features[row[2]]
      IN /\ given.k = "bool" => resolved = given
         /\ Nullish(given) => resolved = Bool(row[3])

C17_Witness ==
  /\ proc = "running"
  /\ At(doc, <<"features", "blog">>) = Bool(FALSE)
  /\ At(doc, <<"features", "chat">>) = Bool(TRUE)
  /\ At(doc, <<"features", "reviews">>) = Undefined
  /\ At(doc, <<"features", "booking">>) = Undefined
  /\ siteConfig.features.blog = Bool(FALSE)
  /\ siteConfig.features.chat = Bool(TRUE)
  /\ siteConfig.features.reviews = Bool(TRUE)
  /\ siteConfig.features.booking = Bool(FALSE)

\* C18: for every entry of reviews.pages, the resolved maxReviews is the
\* entry's max_reviews when the entry gives one and 3 when it gives none (or
\* null), and it is always an integer.
C18_MaxReviewsDefault ==
  LET pages == At(doc, <<"reviews", "pages">>)
  IN (proc = "running" /\ pages.k = "arr") =>
       /\ Len(siteConfig.reviews.pages.v) = Len(pages.v)
       /\ \A i \in 1..Len(pages.v) :
            LET given == At(pages.v[i], <<"max_reviews">>)
                resolved == siteConfig.reviews.pages.v[i].maxReviews
            IN /\ ~Nullish(given) => resolved = given
               /\ Nullish(given) => resolved = Num(3)
               /\ resolved.k = "num"

(***************************************************************************)
(* Properties of the reviews accessor and of the loaded module.            *)
(***************************************************************************)
\* The calls of getReviewsForPage among the two most recent calls.
ReviewCalls == {c \in {lastCall, prevCall} : c.op = "getReviewsForPage"}

\* The positions of the page configs with a given path.
Matches(pagePath) ==
  {i \in 1..Len(siteConfig.reviews.pages.v) :
     siteConfig.reviews.pages.v[i].path = pagePath}

\* The smallest element of a non-empty set of positions.
Earliest(S) == CHOOSE i \in S : \A j \in S : i <= j

\* A review is tagged for a path when reviews.tagged maps its id to a
\* sequence containing the path, or to the path itself.
TaggedFor(r, pagePath) ==
  LET tagged == siteConfig.reviews.tagged
  IN /\ r.id.k = "str"
     /\ Len(r.id.v) = 1
     /\ tagged.k = "obj"
     /\ r.id.v[1] \in DOMAIN tagged.v
     /\ LET pages == tagged.v[r.id.v[1]]
        IN \/ pages.k = "arr" /\ \E j \in 1..Len(pages.v) : pages.v[j] = pagePath
           \/ pages = pagePath

\* The first n elements of a sequence, all of it when it is shorter.
FirstN(s, n) == SubSeq(s, 1, IF n < Len(s) THEN n ELSE Len(s))

\* C13: when the resolved reviews.enabled is false, every call of
\* getReviewsForPage returns an empty review sequence and a null config,
\* without searching the page configs and without reading the dataset.
C13_DisabledShortCircuit ==
  (proc = "running" /\ siteConfig.reviews.enabled = Bool(FALSE)) =>
    \A c \in ReviewCalls :
      /\ c.outcome = "returned"
      /\ c.reviews = << >>
      /\ c.config = Null
      /\ ~c.searched
      /\ ~c.loaded.read

C13_Witness ==
  /\ proc = "running"
  /\ siteConfig.reviews.enabled = Bool(FALSE)
  /\ lastCall.op = "getReviewsForPage"
  /\ Matches(lastCall.pagePath) # {}
  /\ reviewsFile.state = "parsed"
  /\ reviewsFile.doc.k = "obj"
  /\ "reviews" \in DOMAIN reviewsFile.doc.v
  /\ reviewsFile.doc.v.reviews.k = "arr"
  /\ \E i \in 1..Len(reviewsFile.doc.v.reviews.v) :
       TaggedFor(Review(reviewsFile.doc.v.reviews.v[i]), lastCall.pagePath)
  /\ lastCall.reviews = << >>
  /\ lastCall.config = Null

\* C14: with reviews enabled, a call that returns uses the first entry of
\* reviews.pages whose path equals the argument: with no such entry it
\* returns an empty sequence and a null config, and with several the config
\* it returns is the earliest entry and it returns no more reviews than that
\* entry's maxReviews.
C14_FirstMatchWins ==
  proc = "running" =>
    \A c \in ReviewCalls :
      (Truthy(siteConfig.reviews.enabled) /\ c.outcome = "returned") =>
        IF Matches(c.pagePath) = {}
          THEN c.reviews = << >> /\ c.config = Null
          ELSE LET page ==
                     siteConfig.reviews.pages.v[Earliest(Matches(c.pagePath))]
               IN /\ c.config = page
                  /\ page.maxReviews.k = "num" =>
                       Len(c.reviews) <= page.maxReviews.v

C14_Witness ==
  /\ proc = "running"
  /\ lastCall.op = "getReviewsForPage"
  /\ lastCall.outcome = "returned"
  /\ Cardinality(Matches(lastCall.pagePath)) = 2
  /\ \E i, j \in Matches(lastCall.pagePath) :
       /\ i < j
       /\ siteConfig.reviews.pages.v[i].maxReviews = Num(1)
       /\ siteConfig.reviews.pages.v[j].maxReviews = Num(2)
       /\ lastCall.config = siteConfig.reviews.pages.v[i]
  /\ Len(SelectSeq(lastCall.loaded.reviews,
                   LAMBDA r : TaggedFor(r, lastCall.pagePath))) >= 2
  /\ Len(lastCall.reviews) = 1
  /\ prevCall.op = "getReviewsForPage"
  /\ Matches(prevCall.pagePath) = {}
  /\ prevCall.config = Null

\* C15: with reviews enabled and a matching page config, a call that returns
\* gives back that page config and exactly the first maxReviews elements of
\* the reviews of the dataset that are tagged for the path, in the dataset's
\* order: every returned review is tagged for the path and there are never
\* more than maxReviews of them.
C15_TaggedFilterTruncated ==
  proc = "running" =>
    \A c \in ReviewCalls :
      (/\ Truthy(siteConfig.reviews.enabled)
       /\ c.outcome = "returned"
       /\ Matches(c.pagePath) # {})
        => LET page ==
                 siteConfig.reviews.pages.v[Earliest(Matches(c.pagePath))]
               IsTagged(r) == TaggedFor(r, c.pagePath)
           IN /\ c.config = page
              /\ c.loaded.read
              /\ page.maxReviews.k = "num" =>
                   c.reviews =
                     FirstN(SelectSeq(c.loaded.reviews, IsTagged),
                            page.maxReviews.v)
              /\ \A k \in 1..Len(c.reviews) : IsTagged(c.reviews[k])

\* The content of data/reviews.json as a sequence of reviews: its reviews
\* list when the file is JSON with such a list and no null entry, and the
\* empty sequence otherwise.
Dataset(file) ==
  IF /\ file.state = "parsed"
     /\ file.doc.k = "obj"
     /\ "reviews" \in DOMAIN file.doc.v
     /\ file.doc.v.reviews.k = "arr"
     /\ \A i \in 1..Len(file.doc.v.reviews.v) :
          ~Nullish(file.doc.v.reviews.v[i])
    THEN [i \in 1..Len(file.doc.v.reviews.v) |->
            LET r == file.doc.v.reviews.v[i]
            IN [id |-> At(r, <<"id">>), author |-> At(r, <<"author">>),
                rating |-> At(r, <<"rating">>), date |-> At(r, <<"date">>),
                text |-> At(r, <<"text">>),
                hasPhoto |->
                  FirstPopulated(<<At(r, <<"hasPhoto">>)>>, Bool(FALSE))]]
    ELSE << >>

\* The three page paths the callers ask for.
CalledPaths ==
  {Str(<<"/">>), Str(<<"/", "c">>), Str(<<"/", "a">>)}

\* C16: when data/reviews.json is missing or is not JSON at the moment of a
\* call, loadReviews gives the empty sequence and getReviewsForPage returns
\* an empty review sequence without raising an exception, for every path and
\* every resolved configuration.
C16_DatasetFailureTolerated ==
  [][\A pagePath \in CalledPaths :
       (GetReviewsForPage(pagePath) /\ reviewsFile.state # "parsed")
         => /\ lastCall'.outcome = "returned"
            /\ lastCall'.reviews = << >>
            /\ lastCall'.loaded.reviews = << >>]_vars

\* C19: every call of getReviewsForPage that reaches the dataset step reads
\* data/reviews.json as it is at the moment of the call: what loadReviews
\* gives it is the file's content then, whatever an earlier call read, and
\* every review it returns is a review of that content.
C19_DatasetReadAnew ==
  [][\A pagePath \in CalledPaths :
       (GetReviewsForPage(pagePath) /\ lastCall'.loaded.read)
         => /\ lastCall'.loaded.reviews = Dataset(reviewsFile)
            /\ \A k \in 1..Len(lastCall'.reviews) :
                 \E j \in 1..Len(Dataset(reviewsFile)) :
                   lastCall'.reviews[k] = Dataset(reviewsFile)[j]]_vars

C19_Witness ==
  /\ lastCall.op = "getReviewsForPage"
  /\ prevCall.op = "getReviewsForPage"
  /\ lastCall.pagePath = prevCall.pagePath
  /\ prevCall.loaded.read
  /\ lastCall.loaded.read
  /\ prevCall.reviews # << >>
  /\ lastCall.reviews # << >>
  /\ prevCall.loaded.reviews # lastCall.loaded.reviews
  /\ prevCall.reviews # lastCall.reviews
  /\ lastCall.loaded.reviews = Dataset(reviewsFile)

\* C20: siteConfig is assigned once, by the load of the module, with what
\* loadConfig makes of config.yaml at that moment, and never again: no call
\* of getReviewsForPage, getFullAddress or getYearsInBusinessText and no
\* rewrite of config.yaml or data/reviews.json changes it.
C20_SiteConfigFrozen ==
  [][siteConfig' # siteConfig =>
       /\ proc = "start"
       /\ siteConfig = NotLoaded
       /\ proc' = "running"
       /\ siteConfig' = LoadConfig(configFile.doc, currentYear)]_vars

C20_Witness ==
  /\ proc = "running"
  /\ configFile = RewrittenConfig
  /\ siteConfig.name # StrY
  /\ siteConfig.reviews.enabled = Bool(TRUE)
  /\ siteConfig # LoadConfig(configFile.doc, currentYear)
  /\ lastCall.op = "getReviewsForPage"
  /\ lastCall.config # Null
  /\ prevCall.op \in {"getFullAddress", "getYearsInBusinessText"}

(***************************************************************************)
(* Properties of the setup wizard.                                          *)
(***************************************************************************)

\* The failures of the crawl: the tool not installed, a time-out, a
\* non-zero exit, an output file that is missing or cannot be parsed.
CrawlFailed ==
  /\ crawl.requested
  /\ \/ ~crawl.env.tool
     \/ crawl.env.exec \in {"timeout", "exit"}
     \/ crawl.env.output.state \in {"missing", "unparsable"}

\* C21: every failure of the crawl makes extractFromWebsite return null
\* without raising; the wizard then starts the manual prompts with its
\* default data unchanged, always has a question to go on with until the
\* collection ends, and fails, if it does, in a call that generates a file.
C21_CrawlFailureTolerated ==
  CrawlFailed =>
    /\ crawl.result = [k |-> "return", value |-> Null]
    /\ lastAnswer.prompt = QUrl =>
         /\ data = defaults
         /\ steps = <<"extractFromWebsite">>
         /\ outstanding = <<BusinessPrompts[1]>>
    /\ wizard.status = "running" => outstanding # << >>
    /\ wizard.status = "failed" => wizard.threw \in Range(GenerateCalls)

C21_Witness ==
  /\ CrawlFailed
  /\ crawl.env.exec = "timeout"
  /\ wizard.status = "complete"
  /\ Len(writes) = 5

\* The six collection steps, in the order of run.
CollectionSteps ==
  <<"collectBusinessInfo", "collectSiteInfo", "collectContactInfo",
    "collectSocialMedia", "collectBranding", "collectCTA">>

\* The collection steps that have finished, in the order they finished.
Collected ==
  LET IsCollection(step) == step \in Range(CollectionSteps)
  IN SelectSeq(steps, IsCollection)

\* The generation of the files has started.
Generating ==
  \/ wizard.status \in {"generating", "complete"}
  \/ writes # << >>
  \/ \E i \in 1..Len(steps) : steps[i] \in Range(GenerateCalls)
  \/ wizard.status = "failed" /\ wizard.threw \in Range(GenerateCalls)

\* C22: the wizard is strictly sequential: at most one prompt is outstanding
\* at any time, a requested crawl has returned before the first collection
\* prompt is outstanding, the collection steps finish in the order business,
\* site, contact, social, branding, CTA, and the generation of the files
\* starts only after all six have finished.
C22_StrictlySequential ==
  /\ Len(outstanding) <= 1
  /\ (crawl.requested /\ outstanding # << >>) =>
       /\ Head(outstanding) # QUrl
       /\ steps # << >> /\ steps[1] = "extractFromWebsite"
  /\ Collected = SubSeq(CollectionSteps, 1, Len(Collected))
  /\ Generating => Collected = CollectionSteps /\ outstanding = << >>

C22_Witness ==
  /\ wizard.status = "complete"
  /\ crawl.requested
  /\ steps = <<"extractFromWebsite">> \o CollectionSteps \o GenerateCalls

\* The files in the order run generates them.
FileOrder ==
  <<"config.yaml", "public/images/logo.svg", "public/favicon.svg",
    "src/content/blog/welcome-to-our-website.md", "astro.config.mjs">>

\* generateConfig found no template, or one that lacks a section it assigns
\* into.
TemplateUnusable ==
  \/ template.state = "missing"
  \/ /\ template.state = "parsed"
     /\ template.doc.k = "obj"
     /\ \E section \in {"branding", "contact_form", "email", "seo", "legal"} :
          section \notin DOMAIN template.doc.v

\* C25: the files are written in the order config.yaml, logo, favicon, blog
\* post, astro.config.mjs; when generateConfig fails (no template exists,
\* or the template lacks a section assigned into) config.yaml is not
\* written, no later file is written, and the run ends with the failure
\* exit, not with "Setup Complete".
C25_ConfigStepAllOrNothing ==
  /\ Len(writes) <= Len(FileOrder)
  /\ \A i \in 1..Len(writes) : writes[i].file = FileOrder[i]
  /\ TemplateUnusable =>
       /\ writes = << >>
       /\ wizard = [status |-> "failed", threw |-> "generateConfig"]
  /\ (wizard.status = "failed" /\ wizard.threw = "generateConfig") =>
       writes = << >>
  /\ wizard.status = "complete" => writes # << >> /\ writes[1].file = "config.yaml"

C25_Witness ==
  /\ template.state = "parsed"
  /\ template.doc.k = "obj"
  /\ "business" \in DOMAIN template.doc.v
  /\ "seo" \notin DOMAIN template.doc.v
  /\ wizard.status = "failed"
  /\ writes = << >>

\* A line that, without the blanks around it, is a decimal numeral with an
\* optional sign, and the number it states.
Unsigned(line) ==
  LET t == Trim(line)
  IN IF t # << >> /\ Head(t) \in {"-", "+"} THEN Tail(t) ELSE t

IsNumeral(line) == Unsigned(line) # << >> /\ AllDigits(Unsigned(line))

NumeralValue(line) ==
  IF Head(Trim(line)) = "-" THEN -DecimalValue(Unsigned(line))
  ELSE DecimalValue(Unsigned(line))

\* C23: promptChoice, called with a non-empty list of non-empty choices and a
\* default position inside the list, returns an element of the list for
\* every answer: the choice at position (answer - 1) when the answer is a
\* number from 1 to the length of the list, and the default choice when the
\* answer is empty, not a number, zero, negative or too large.
C23_PromptChoiceTotal ==
  (lastAnswer.prompt = "Enter number" /\ outstanding = << >>) =>
    LET call == lastAnswer
        numbered == /\ IsNumeral(call.line)
                    /\ NumeralValue(call.line) \in 1..Len(call.choices)
    IN /\ call.value \in Range(call.choices)
       /\ IF numbered
            THEN call.value = call.choices[NumeralValue(call.line)]
            ELSE call.value = call.choices[call.defaultIndex + 1]

\* An address that begins with "http://" or "https://", followed by a
\* domain.
CarriesScheme(url) ==
  /\ url.k = "str"
  /\ \E scheme \in {LitHttps, LitHttp} :
       StartsWith(url.v, scheme) /\ Len(url.v) > Len(scheme)

\* C26: after collectSiteInfo, for every answer the user can type, site.url
\* begins with "http://" or "https://" followed by the domain, so the site
\* address written to config.yaml and to astro.config.mjs carries a scheme
\* and the domain of email.from_email contains none.
C26_SiteUrlCarriesScheme ==
  /\ (\E i \in 1..Len(steps) : steps[i] = "collectSiteInfo") =>
       CarriesScheme(data.url)
  /\ \A i \in 1..Len(writes) :
       writes[i].file \in {"config.yaml", "astro.config.mjs"} =>
         CarriesScheme(writes[i].url)
  /\ \A i \in 1..Len(writes) :
       writes[i].file = "config.yaml" =>
         ~IsSubstring(<<":", "/", "/">>, writes[i].fromEmailDomain)

\* C24: whenever extractFromWebsite returns, with mapped data or with null,
\* .extracted_data.json no longer exists in the project root: every path on
\* which the crawl created the file also deletes it, the path on which its
\* content cannot be parsed included.
C24_TempFileRemoved ==
  (crawl.requested /\ crawl.result.k = "return") => ~tempFile

=============================================================================
